---- MODULE Spec2Model ----
(***************************************************************************)
(* Trading-App: the scheduled auto-trading loop of the strategy server     *)
(* (server/sockets/marketData.js), its raw price history, and the candle   *)
(* aggregation helpers of the client (src/utils/candleUtils.ts).           *)
(*                                                                         *)
(* Numbers.  Prices are positive integers.  A JavaScript number that is    *)
(* the result of a division is kept as an exact fraction [num, den] with   *)
(* den > 0, or as NaN; comparisons are made by cross-multiplication, so    *)
(* no rounding is introduced by the model.  Percent parameters that have   *)
(* one decimal in the source (stopLoss 1.5, trendStrength 1.2) are stored  *)
(* in tenths (15, 12).                                                     *)
(***************************************************************************)
EXTENDS Integers, Sequences, FiniteSets, TLC

VARIABLES
    strategies,        \* Map id -> strategy object
    systemStatus,      \* {status, autoTradingEnabled, logs}
    marketDataCache,   \* Map symbol -> last fetched price
    priceHistory,      \* Map symbol -> array of prices
    cycles,            \* executeAutoTrading invocations in flight
    orders,            \* order book of the gateway: order id -> request and its status
    timers,            \* pending setTimeout callbacks (stop loss / take profit)
    riskJobs,          \* scheduleStopLossAndTakeProfit invocations in flight
    cyclesStarted,     \* number of executeAutoTrading invocations begun
    lastCommand,       \* body of the last POST /system/auto-trading
    logClock,          \* number of log entries ever written
    budget,            \* cycles and requests the environment may still start
    pushed,            \* per symbol, every price ever given to addToHistory
    candles,           \* the candle list held by the chart panel
    appended,          \* every candle time ever appended to the list
    candleClock,       \* the largest tick timestamp delivered so far
    ticksInOrder,      \* no tick so far was older than the one before it
    tickCount,         \* number of ticks delivered to the candle helpers
    evaluated,         \* the last direct call of an evaluation function and its result
    panel,             \* the order form of the trading panel: authStatus and its orders
    engine,            \* the live trading engine: its React state, refs and orders in flight
    chart              \* the chart's auto trading system: positions, trade counts, orders

vars == <<strategies, systemStatus, marketDataCache, priceHistory, cycles,
          orders, timers, riskJobs, cyclesStarted, lastCommand, logClock,
          budget, pushed, candles, appended, candleClock, ticksInOrder,
          tickCount, evaluated, panel, engine, chart>>

serverVars == <<strategies, systemStatus, marketDataCache, cycles, orders,
                timers, riskJobs, cyclesStarted, lastCommand, logClock, budget>>

historyVars == <<priceHistory, pushed>>

candleVars == <<candles, appended, candleClock, ticksInOrder, tickCount>>

callVars == <<evaluated>>

panelVars == <<panel>>

engineVars == <<engine>>

chartVars == <<chart>>

----------------------------------------------------------------------------
(* Bounds of the model                                                     *)

MaxCycles == 2          \* executeAutoTrading invocations per behaviour
MaxInFlight == 2        \* overlapping executeAutoTrading invocations
MaxRequests == 2        \* PUT and POST requests served per behaviour
HistExtra == 3          \* addToHistory calls made beyond the cap
HistFree == 2           \* calls before the cap whose price is chosen freely
OtherPushes == 2        \* addToHistory calls for the second symbol
CandleExtra == 2        \* candle ticks delivered beyond the cap
CandleFree == 2         \* ticks before the cap whose time and price are free
EvalExtra == 2          \* samples beyond MinHistory given to a direct evaluation
MaxEmaLen == 4          \* samples given to a direct crossover evaluation
LogRequests == 202       \* start/stop commands in a run that fills the log
MaxSubmits == 2         \* submissions of the order form
MaxClicks == 6          \* presses of the engine's start/stop button
MaxEngineTicks == 20    \* interval callbacks of the running engine
MaxChartTicks == 3      \* interval callbacks of the chart's auto trading system
MaxLoopCalls == 3       \* direct calls of the engine's trading loop
MaxMove == 35           \* price moves of a checked position, in steps of MoveStep

(* Program constants                                                       *)

HistoryCap == 200       \* raw prices kept per symbol
CandleCap == 60         \* candles kept per list
MinHistory == 20        \* samples evaluateStrategy requires
MinConfidence == 70     \* execution gate of executeAutoTrading
LogTrim == 100          \* log length above which the signal log shifts
IntervalSec == 60       \* default candle interval
TickSeconds == 2        \* period of the live engine's interval
MinTradeGap == 30       \* seconds executeTrade requires since the last trade
LiveHistoryCap == 100   \* prices and volumes the live engine keeps per symbol
InitialSamples == 50    \* samples the live engine's mount effect generates
SignalsKept == 20       \* signals the live engine keeps

Prices == {1, 3}        \* prices handed to addToHistory when called directly

QuotePrices == {3}      \* regularMarketPrice of the quotes fetched by the loop

----------------------------------------------------------------------------
(* Small helpers                                                           *)

Last(s) == s[Len(s)]

Min(a, b) == IF a < b THEN a ELSE b

Max(a, b) == IF a > b THEN a ELSE b

Abs(a) == IF a < 0 THEN -a ELSE a

RECURSIVE SumSeq(_)
SumSeq(s) == IF s = <<>> THEN 0 ELSE Head(s) + SumSeq(Tail(s))

\* Array.prototype.slice(from, to) with 0-based, end-exclusive indices
\* (negative or out-of-range indices clamped as JavaScript does).
Slice(s, from, to) ==
    LET f == Max(0, from)
        t == Min(Len(s), to)
    IN  IF t <= f THEN <<>> ELSE SubSeq(s, f + 1, t)

\* Array.prototype.slice(-n): the last n elements.
SliceLast(s, n) == IF Len(s) <= n THEN s ELSE SubSeq(s, Len(s) - n + 1, Len(s))

\* Exact fractions standing for JavaScript numbers.
Rat(n, d) == [nan |-> FALSE, num |-> n, den |-> d]

NaN == [nan |-> TRUE, num |-> 0, den |-> 1]

\* a < b, a <= b, a > b, a >= b on fractions; false as soon as one is NaN.
RatLT(a, b) == ~a.nan /\ ~b.nan /\ a.num * b.den < b.num * a.den

RatLE(a, b) == ~a.nan /\ ~b.nan /\ a.num * b.den <= b.num * a.den

RatGT(a, b) == RatLT(b, a)

RatGE(a, b) == RatLE(b, a)

\* Math.max / Math.min of an integer and a fraction.
RatMax(k, a) == IF a.nan THEN NaN ELSE IF a.num >= k * a.den THEN a ELSE Rat(k, 1)

RatMin(k, a) == IF a.nan THEN NaN ELSE IF a.num <= k * a.den THEN a ELSE Rat(k, 1)

----------------------------------------------------------------------------
(* Technical analysis functions                                            *)

\* calculateEMA: one value per price; value i has denominator (period+1)^(i-1).
RECURSIVE calculateEMA(_, _)
calculateEMA(prices, period) ==
    IF Len(prices) <= 1
    THEN [i \in 1..Len(prices) |-> Rat(prices[i], 1)]
    ELSE LET front == calculateEMA(SubSeq(prices, 1, Len(prices) - 1), period)
             prev == Last(front)
         IN  Append(front,
                    Rat(2 * Last(prices) * prev.den + (period - 1) * prev.num,
                        (period + 1) * prev.den))

\* calculateSMA: one value per window of `period` prices.
calculateSMA(prices, period) ==
    IF Len(prices) < period THEN <<>>
    ELSE [i \in 1..(Len(prices) - period + 1) |->
            Rat(SumSeq(SubSeq(prices, i, i + period - 1)), period)]

\* An RSI over the latest `period` deltas.
calculateRSIRecent(prices, period) ==
    LET deltas == [i \in 1..(Len(prices) - 1) |-> prices[i + 1] - prices[i]]
        gains == [i \in 1..Len(deltas) |-> IF deltas[i] > 0 THEN deltas[i] ELSE 0]
        losses == [i \in 1..Len(deltas) |-> IF deltas[i] < 0 THEN Abs(deltas[i]) ELSE 0]
        gain == SumSeq(SliceLast(gains, period))
        loss == SumSeq(SliceLast(losses, period))
    IN  IF gain = 0 /\ loss = 0 THEN NaN
        ELSE Rat(100 * gain, gain + loss)

\* calculateRSI: gains and losses of the first `period` deltas only.
\* rs = avgGain / avgLoss; 100 - 100 / (1 + rs) = 100 * gain / (gain + loss),
\* with 0/0 = NaN and x/0 = Infinity (RSI 100).
calculateRSI(prices, period) ==
    LET deltas == [i \in 1..(Len(prices) - 1) |-> prices[i + 1] - prices[i]]
        gains == [i \in 1..Len(deltas) |-> IF deltas[i] > 0 THEN deltas[i] ELSE 0]
        losses == [i \in 1..Len(deltas) |-> IF deltas[i] < 0 THEN Abs(deltas[i]) ELSE 0]
        gain == SumSeq(Slice(gains, 0, period))
        loss == SumSeq(Slice(losses, 0, period))
    IN  IF gain = 0 /\ loss = 0 THEN NaN
        ELSE Rat(100 * gain, gain + loss)

\* calculateBollingerBands: one band per window.  A band is kept as the
\* window's sum, sum of squares and size, from which
\*   middle = sum / n,  variance = (n * sq - sum^2) / n^2,
\*   upper/lower = middle +/- stdDev * sqrt(variance).
RECURSIVE SumSq(_)
SumSq(s) == IF s = <<>> THEN 0 ELSE Head(s) * Head(s) + SumSq(Tail(s))

calculateBollingerBands(prices, period, stdDev) ==
    [i \in 1..Len(calculateSMA(prices, period)) |->
        LET slice == Slice(prices, i - 1, i - 1 + period)
        IN  [sum |-> SumSeq(slice), sq |-> SumSq(slice), n |-> period, k |-> stdDev]]

\* n^2 * variance of a band, and n * (price - middle)
BandSpread(band) == band.n * band.sq - band.sum * band.sum

BandOffset(band, price) == band.n * price - band.sum

\* price <= band.lower, price >= band.upper, price > band.upper, price < band.lower
AtOrBelowLower(band, price) ==
    /\ BandOffset(band, price) <= 0
    /\ BandOffset(band, price) * BandOffset(band, price) >= band.k * band.k * BandSpread(band)

AtOrAboveUpper(band, price) ==
    /\ BandOffset(band, price) >= 0
    /\ BandOffset(band, price) * BandOffset(band, price) >= band.k * band.k * BandSpread(band)

AboveUpper(band, price) ==
    /\ BandOffset(band, price) > 0
    /\ BandOffset(band, price) * BandOffset(band, price) > band.k * band.k * BandSpread(band)

BelowLower(band, price) ==
    /\ BandOffset(band, price) < 0
    /\ BandOffset(band, price) * BandOffset(band, price) > band.k * band.k * BandSpread(band)

----------------------------------------------------------------------------
(* Strategy evaluation functions                                           *)

Signal(a, c) == [action |-> a, confidence |-> c]

HOLD == Signal("HOLD", Rat(0, 1))

evaluateEMACrossover(prices, parameters) ==
    IF Len(prices) < parameters.slowPeriod THEN HOLD
    ELSE LET fastEMA == calculateEMA(prices, parameters.fastPeriod)
             slowEMA == calculateEMA(prices, parameters.slowPeriod)
             currentFast == fastEMA[Len(fastEMA)]
             currentSlow == slowEMA[Len(slowEMA)]
             prevFast == IF Len(fastEMA) >= 2 THEN fastEMA[Len(fastEMA) - 1] ELSE NaN
             prevSlow == IF Len(slowEMA) >= 2 THEN slowEMA[Len(slowEMA) - 1] ELSE NaN
         IN  IF RatLE(prevFast, prevSlow) /\ RatGT(currentFast, currentSlow)
             THEN Signal("BUY", Rat(85, 1))
             ELSE IF RatGE(prevFast, prevSlow) /\ RatLT(currentFast, currentSlow)
             THEN Signal("SELL", Rat(85, 1))
             ELSE HOLD

\* An rsi_oversold whose SELL confidence is the RSI itself.
evaluateRSIOversoldByRsi(prices, parameters) ==
    IF Len(prices) < parameters.rsiPeriod + 1 THEN HOLD
    ELSE LET rsi == calculateRSI(prices, parameters.rsiPeriod)
         IN  IF RatLE(rsi, Rat(parameters.oversoldLevel, 1))
             THEN Signal("BUY", RatMax(60, Rat(100 * rsi.den - rsi.num, rsi.den)))
             ELSE IF RatGE(rsi, Rat(parameters.overboughtLevel, 1))
             THEN Signal("SELL", RatMax(60, rsi))
             ELSE HOLD

evaluateRSIOversold(prices, parameters) ==
    IF Len(prices) < parameters.rsiPeriod + 1 THEN HOLD
    ELSE LET rsi == calculateRSI(prices, parameters.rsiPeriod)
         IN  IF RatLE(rsi, Rat(parameters.oversoldLevel, 1))
             THEN Signal("BUY", RatMax(60, Rat(100 * rsi.den - rsi.num, rsi.den)))
             ELSE IF RatGE(rsi, Rat(parameters.overboughtLevel, 1))
             THEN Signal("SELL", RatMax(60, Rat(rsi.num - 50 * rsi.den, rsi.den)))
             ELSE HOLD

\* trendStrength = |short - long| / price; parameters.trendStrength is in
\* tenths, so parameters.trendStrength / 100 is the fraction ts10 / 1000.
evaluateSMATrend(prices, parameters) ==
    IF Len(prices) < parameters.longPeriod THEN HOLD
    ELSE LET shortSMA == calculateSMA(prices, parameters.shortPeriod)
             longSMA == calculateSMA(prices, parameters.longPeriod)
             currentShort == IF shortSMA = <<>> THEN NaN ELSE shortSMA[Len(shortSMA)]
             currentLong == IF longSMA = <<>> THEN NaN ELSE longSMA[Len(longSMA)]
             currentPrice == prices[Len(prices)]
             trendStrength ==
                 IF currentShort.nan \/ currentLong.nan THEN NaN
                 ELSE Rat(Abs(currentShort.num * currentLong.den
                              - currentLong.num * currentShort.den),
                          currentShort.den * currentLong.den * currentPrice)
             threshold == Rat(parameters.trendStrength, 1000)
             confidence == RatMin(90, Rat(60 * trendStrength.den + 1000 * trendStrength.num,
                                          trendStrength.den))
         IN  IF RatGT(currentShort, currentLong) /\ RatGT(trendStrength, threshold)
             THEN Signal("BUY", confidence)
             ELSE IF RatLT(currentShort, currentLong) /\ RatGT(trendStrength, threshold)
             THEN Signal("SELL", confidence)
             ELSE HOLD

evaluateBollingerBands(prices, parameters) ==
    IF Len(prices) < parameters.period THEN HOLD
    ELSE LET bands == calculateBollingerBands(prices, parameters.period, parameters.stdDev)
             currentBand == bands[Len(bands)]
             currentPrice == prices[Len(prices)]
         IN  IF parameters.meanReversion
             THEN IF AtOrBelowLower(currentBand, currentPrice)
                  THEN Signal("BUY", Rat(80, 1))
                  ELSE IF AtOrAboveUpper(currentBand, currentPrice)
                  THEN Signal("SELL", Rat(80, 1))
                  ELSE HOLD
             ELSE IF AboveUpper(currentBand, currentPrice)
                  THEN Signal("BUY", Rat(75, 1))
                  ELSE IF BelowLower(currentBand, currentPrice)
                  THEN Signal("SELL", Rat(75, 1))
                  ELSE HOLD

----------------------------------------------------------------------------
(* In-memory storage                                                       *)

StrategyOrder ==
    <<"ema_crossover_1", "rsi_oversold_1", "sma_trend_1", "bollinger_bands_1">>

null == [action |-> "null"]

NoPerformance ==
    [totalTrades |-> 0, winRate |-> 0, totalPnL |-> 0, maxDrawdown |-> 0, sharpeRatio |-> 0]

\* initializeStrategies: the hard-coded default set, all disabled.
defaultStrategies ==
    [id \in {StrategyOrder[i] : i \in 1..Len(StrategyOrder)} |->
        CASE id = "ema_crossover_1" ->
               [id |-> id, type |-> "ema_crossover", symbol |-> "NIFTY.NS",
                enabled |-> FALSE,
                parameters |-> [fastPeriod |-> 9, slowPeriod |-> 21, quantity |-> 25,
                                stopLoss |-> 20, takeProfit |-> 40, trailingStop |-> TRUE],
                performance |-> NoPerformance, lastSignal |-> null]
          [] id = "rsi_oversold_1" ->
               [id |-> id, type |-> "rsi_oversold", symbol |-> "BANKNIFTY.NS",
                enabled |-> FALSE,
                parameters |-> [rsiPeriod |-> 14, oversoldLevel |-> 30,
                                overboughtLevel |-> 70, quantity |-> 15,
                                stopLoss |-> 15, takeProfit |-> 30],
                performance |-> NoPerformance, lastSignal |-> null]
          [] id = "sma_trend_1" ->
               [id |-> id, type |-> "sma_trend", symbol |-> "RELIANCE.NS",
                enabled |-> FALSE,
                parameters |-> [shortPeriod |-> 20, longPeriod |-> 50, trendStrength |-> 12,
                                quantity |-> 10, stopLoss |-> 25, takeProfit |-> 50],
                performance |-> NoPerformance, lastSignal |-> null]
          [] OTHER ->
               [id |-> id, type |-> "bollinger_bands", symbol |-> "TCS.NS",
                enabled |-> FALSE,
                parameters |-> [period |-> 20, stdDev |-> 2, quantity |-> 5,
                                stopLoss |-> 18, takeProfit |-> 35, meanReversion |-> TRUE],
                performance |-> NoPerformance, lastSignal |-> null]]

\* parameters: null, as a PUT body can set it; reading a property of it
\* throws a TypeError.
NullParameters == [null |-> TRUE]

IsNull(parameters) == "null" \in DOMAIN parameters

\* Map.prototype.set
MapSet(m, k, v) == [x \in DOMAIN m \cup {k} |-> IF x = k THEN v ELSE m[x]]

\* An assignment that keeps only the fields of the update.
ObjectAssignReplaces(target, updates) == updates

\* Object.assign(target, updates): a shallow merge of the top-level fields.
ObjectAssign(target, updates) ==
    [f \in DOMAIN target \cup DOMAIN updates |->
        IF f \in DOMAIN updates THEN updates[f] ELSE target[f]]

----------------------------------------------------------------------------
(* Historical price data                                                   *)

\* A trim that removes the newest price (pop) instead of the oldest (shift).
addToHistoryPops(hist, symbol, price) ==
    LET history == IF symbol \in DOMAIN hist THEN hist[symbol] ELSE <<>>
        grown == Append(history, price)
    IN  MapSet(hist, symbol,
               IF Len(grown) > HistoryCap THEN SubSeq(grown, 1, Len(grown) - 1) ELSE grown)

addToHistory(hist, symbol, price) ==
    LET history == IF symbol \in DOMAIN hist THEN hist[symbol] ELSE <<>>
        grown == Append(history, price)
    IN  MapSet(hist, symbol,
               IF Len(grown) > HistoryCap THEN Tail(grown) ELSE grown)

\* The ledger of every price handed to addToHistory, never trimmed.
Record(all, symbol, price) ==
    MapSet(all, symbol,
           Append(IF symbol \in DOMAIN all THEN all[symbol] ELSE <<>>, price))

\* An evaluation without the 20-sample minimum.
evaluateStrategyNoMinimum(strategy, hist) ==
    IF strategy.symbol \notin DOMAIN hist \/ IsNull(strategy.parameters) THEN null
    ELSE LET history == hist[strategy.symbol]
             signal ==
                 CASE strategy.type = "ema_crossover" ->
                        evaluateEMACrossover(history, strategy.parameters)
                   [] strategy.type = "rsi_oversold" ->
                        evaluateRSIOversold(history, strategy.parameters)
                   [] strategy.type = "sma_trend" ->
                        evaluateSMATrend(history, strategy.parameters)
                   [] strategy.type = "bollinger_bands" ->
                        evaluateBollingerBands(history, strategy.parameters)
                   [] OTHER -> null
         IN  IF signal.action \notin {"null", "HOLD"}
             THEN [action |-> signal.action, confidence |-> signal.confidence,
                   price |-> history[Len(history)]]
             ELSE null

evaluateStrategy(strategy, hist) ==
    IF strategy.symbol \notin DOMAIN hist THEN null
    ELSE IF Len(hist[strategy.symbol]) < MinHistory THEN null
    ELSE LET history == hist[strategy.symbol]
             signal ==
                 CASE strategy.type = "ema_crossover" ->
                        evaluateEMACrossover(history, strategy.parameters)
                   [] strategy.type = "rsi_oversold" ->
                        evaluateRSIOversold(history, strategy.parameters)
                   [] strategy.type = "sma_trend" ->
                        evaluateSMATrend(history, strategy.parameters)
                   [] strategy.type = "bollinger_bands" ->
                        evaluateBollingerBands(history, strategy.parameters)
                   [] OTHER -> null
         IN  IF signal.action \notin {"null", "HOLD"}
             THEN [action |-> signal.action, confidence |-> signal.confidence,
                   price |-> history[Len(history)]]
             ELSE null

\* evaluateStrategy throws: with enough history the evaluate* function of the
\* strategy's type reads a property of strategy.parameters.
evaluateStrategyThrows(strategy, hist) ==
    /\ strategy.symbol \in DOMAIN hist
    /\ Len(hist[strategy.symbol]) >= MinHistory
    /\ strategy.type \in {"ema_crossover", "rsi_oversold", "sma_trend", "bollinger_bands"}
    /\ IsNull(strategy.parameters)

\* A gate set at 60 instead of 70.
PassesGateAtSixty(signal) ==
    /\ signal.action # "null"
    /\ RatGE(signal.confidence, Rat(60, 1))

\* signal && signal.confidence >= 70
PassesGate(signal) ==
    /\ signal.action # "null"
    /\ RatGE(signal.confidence, Rat(MinConfidence, 1))

----------------------------------------------------------------------------
(* Order gateway and orders built by the server                            *)

Opposite(action) == IF action = "BUY" THEN "SELL" ELSE "BUY"

\* executeRealTrade: the orderData of the parent order.
ParentOrder(strategy, signal, cycle) ==
    [kind |-> "parent", cycle |-> cycle, strategy |-> strategy.id,
     quantity |-> strategy.parameters.quantity,
     price |-> Rat(signal.price, 1),
     order_type |-> "LIMIT",
     transaction_type |-> signal.action,
     product |-> "MIS",
     parent |-> <<>>,
     status |-> "pending"]

\* scheduleStopLossAndTakeProfit: the two derived prices,
\* currentPrice * (1 -/+ stopLoss / 100) and currentPrice * (1 +/- takeProfit / 100),
\* with stopLoss and takeProfit in tenths of a percent.
stopLossPrice(strategy, signal) ==
    IF signal.action = "BUY"
    THEN Rat(signal.price * (1000 - strategy.parameters.stopLoss), 1000)
    ELSE Rat(signal.price * (1000 + strategy.parameters.stopLoss), 1000)

takeProfitPrice(strategy, signal) ==
    IF signal.action = "BUY"
    THEN Rat(signal.price * (1000 + strategy.parameters.takeProfit), 1000)
    ELSE Rat(signal.price * (1000 - strategy.parameters.takeProfit), 1000)

stopLossOrder(strategy, signal, parentOrderId) ==
    [kind |-> "sl", cycle |-> 0, strategy |-> strategy.id,
     quantity |-> strategy.parameters.quantity,
     price |-> stopLossPrice(strategy, signal),
     order_type |-> "SL",
     transaction_type |-> Opposite(signal.action),
     product |-> "MIS",
     parent |-> parentOrderId,
     status |-> "pending"]

takeProfitOrder(strategy, signal, parentOrderId) ==
    [kind |-> "tp", cycle |-> 0, strategy |-> strategy.id,
     quantity |-> strategy.parameters.quantity,
     price |-> takeProfitPrice(strategy, signal),
     order_type |-> "LIMIT",
     transaction_type |-> Opposite(signal.action),
     product |-> "MIS",
     parent |-> parentOrderId,
     status |-> "pending"]

\* What a call of placeOrderDirect can end in: the gateway accepts the order,
\* answers with an error status, or the request fails (timeout, network).
Outcomes == {"ok", "rejected", "error"}

\* placeOrderDirect: success only when the POST returned normally; an error
\* response and a thrown request error are both caught and returned as failure.
placeOrderDirectSuccess(outcome) == outcome = "ok"

\* The order ids the gateway hands out: one per request, named after the
\* cycle and strategy of the parent order and the kind of the request.
OrderId(cycle, strategyId, kind) == <<cycle, strategyId, kind>>

\* systemStatus.logs.push(message): an entry is kept as the serial number of
\* its timestamp.
PushLog(logs) == Append(logs, logClock + 1)

----------------------------------------------------------------------------
(* Auto trading logic                                                      *)

\* Array.from(strategies.values()).filter(s => s.enabled), as strategy ids.
activeStrategies(strats) ==
    SelectSeq(StrategyOrder, LAMBDA id : strats[id].enabled)

\* The for-loop moves to its next strategy, or the function returns.
NextStrategy(c) ==
    IF c.idx + 1 > Len(c.active)
    THEN [c EXCEPT !.idx = c.idx + 1, !.pc = "done", !.pending = <<>>]
    ELSE [c EXCEPT !.idx = c.idx + 1, !.pc = "fetch", !.pending = <<>>]

\* A continuation of the loop body runs without reading autoTradingEnabled
\* again; the cycle remembers whether one of them ran while the flag was off.
Resumed(c) == [c EXCEPT !.ranDisabled = @ \/ ~systemStatus.autoTradingEnabled]

\* executeAutoTrading up to its first await: the enabled strategies are
\* picked and the first quote is requested.
executeAutoTrading(timer) ==
    /\ systemStatus.autoTradingEnabled
    /\ budget.cycles > 0
    /\ Len(cycles) < MaxInFlight
    /\ LET active == activeStrategies(strategies)
       IN  cycles' = Append(cycles,
                [n |-> cyclesStarted + 1,
                 active |-> active,
                 idx |-> 1,
                 pc |-> IF active = <<>> THEN "done" ELSE "fetch",
                 pending |-> <<>>,
                 signal |-> null,
                 startEnabled |-> {id \in DOMAIN strategies : strategies[id].enabled},
                 fetched |-> {},
                 skipped |-> {},
                 evals |-> <<>>,
                 sent |-> <<>>,
                 failed |-> {},
                 ranDisabled |-> FALSE])
    /\ cyclesStarted' = cyclesStarted + 1
    /\ budget' = [budget EXCEPT !.cycles = @ - 1]
    /\ UNCHANGED <<strategies, systemStatus, marketDataCache, orders, timers,
                   riskJobs, lastCommand, logClock>>
    /\ UNCHANGED historyVars
    /\ UNCHANGED candleVars
    /\ UNCHANGED panelVars
    /\ UNCHANGED engineVars
    /\ UNCHANGED chartVars
    /\ UNCHANGED callVars

\* cron.schedule('* * * * *')
CronEveryMinute ==
    /\ systemStatus.autoTradingEnabled
    /\ executeAutoTrading("minute")

\* cron.schedule('*/30 * * * * *'), only inside market hours
CronEvery30Seconds ==
    \E marketHours \in BOOLEAN :
        /\ systemStatus.autoTradingEnabled
        /\ marketHours
        /\ executeAutoTrading("30s")

\* A failed fetch that leaves the loop (`return` in place of `continue`).
SkipStrategyReturns(c) == [c EXCEPT !.pc = "done", !.pending = <<>>]

\* if (!marketData) continue;
SkipStrategy(c) == NextStrategy(c)

\* fetchMarketData failed (quote threw, null returned): the strategy is
\* skipped.
FetchFailed(i) ==
    /\ i \in 1..Len(cycles)
    /\ cycles[i].pc = "fetch"
    /\ LET c == cycles[i]
           id == c.active[c.idx]
       IN  cycles' = [cycles EXCEPT
                ![i] = SkipStrategy([Resumed(c) EXCEPT !.skipped = @ \cup {id}])]
    /\ UNCHANGED <<strategies, systemStatus, marketDataCache, orders, timers,
                   riskJobs, cyclesStarted, lastCommand, logClock, budget>>
    /\ UNCHANGED historyVars
    /\ UNCHANGED candleVars
    /\ UNCHANGED panelVars
    /\ UNCHANGED engineVars
    /\ UNCHANGED chartVars
    /\ UNCHANGED callVars

\* An error handler that gives up the rest of the loop.
CatchStrategyErrorReturns(c) == [c EXCEPT !.pc = "done", !.pending = <<>>]

\* catch (error) of the loop body: the error is logged and the for-loop goes
\* on with its next strategy.
CatchStrategyError(c) == NextStrategy(c)

\* fetchMarketData returned a quote: history and cache are updated, the
\* strategy is evaluated and, when the signal passes the gate, it is logged
\* and executeRealTrade sends the parent order.  An evaluation that throws is
\* caught by the loop body's handler, which pushes a log entry.
FetchReturned(i, price) ==
    /\ i \in 1..Len(cycles)
    /\ cycles[i].pc = "fetch"
    /\ LET c == Resumed(cycles[i])
           id == c.active[c.idx]
           strategy == strategies[id]
           hist == addToHistory(priceHistory, strategy.symbol, price)
           signal == evaluateStrategy(strategy, hist)
           seen == [c EXCEPT !.fetched = @ \cup {id},
                             !.evals = Append(@, [id |-> id, signal |-> signal,
                                                  quantity |->
                                                      IF IsNull(strategy.parameters)
                                                      THEN 0
                                                      ELSE strategy.parameters.quantity])]
           logged == PushLog(systemStatus.logs)
           orderId == OrderId(c.n, id, "parent")
       IN  /\ priceHistory' = hist
           /\ pushed' = Record(pushed, strategy.symbol, price)
           /\ marketDataCache' = MapSet(marketDataCache, strategy.symbol, price)
           /\ IF evaluateStrategyThrows(strategy, hist)
              THEN /\ systemStatus' = [systemStatus EXCEPT !.logs = logged]
                   /\ logClock' = logClock + 1
                   /\ cycles' = [cycles EXCEPT ![i] =
                          CatchStrategyError([c EXCEPT !.fetched = @ \cup {id},
                                                       !.failed = @ \cup {id}])]
                   /\ UNCHANGED <<strategies, orders>>
              ELSE IF PassesGate(signal)
              THEN /\ strategies' = [strategies EXCEPT ![id].lastSignal = signal]
                   /\ systemStatus' = [systemStatus EXCEPT !.logs =
                          IF Len(logged) > LogTrim THEN Tail(logged) ELSE logged]
                   /\ logClock' = logClock + 1
                   /\ orders' = MapSet(orders, orderId, ParentOrder(strategy, signal, c.n))
                   /\ cycles' = [cycles EXCEPT ![i] =
                          [seen EXCEPT !.pc = "order", !.pending = orderId,
                                       !.signal = signal, !.sent = Append(@, id)]]
              ELSE /\ cycles' = [cycles EXCEPT ![i] = NextStrategy(seen)]
                   /\ UNCHANGED <<strategies, systemStatus, orders, logClock>>
    /\ UNCHANGED <<timers, riskJobs, cyclesStarted, lastCommand, budget>>
    /\ UNCHANGED candleVars
    /\ UNCHANGED panelVars
    /\ UNCHANGED engineVars
    /\ UNCHANGED chartVars
    /\ UNCHANGED callVars

\* A timer set whatever the response of the parent order.
ScheduleRiskOrdersAlways(pending, c, id, success) ==
    pending \cup {[strategy |-> id, signal |-> c.signal, parentOrderId |-> c.pending]}

\* executeRealTrade after the parent order returned: only a successful
\* response sets the timer of the stop loss / take profit orders.
ScheduleRiskOrders(pending, c, id, success) ==
    IF success
    THEN pending \cup {[strategy |-> id, signal |-> c.signal, parentOrderId |-> c.pending]}
    ELSE pending

\* A trade counted for every order sent, as the simulated variant does.
CountTradeAlways(strats, id, success) ==
    [strats EXCEPT ![id].performance.totalTrades = @ + 1]

\* executeAutoTrading after executeRealTrade: only tradeResult.success counts
\* the trade.
CountTrade(strats, id, success) ==
    IF success
    THEN [strats EXCEPT ![id].performance.totalTrades = @ + 1]
    ELSE strats

\* placeOrderDirect returned to executeRealTrade, which returned to
\* executeAutoTrading: on success the stop loss / take profit timer is set,
\* the trade is logged and counted; on failure only the failure is logged.
\* Building the success log entry reads strategy.parameters.quantity: when
\* that throws, the inner handler logs a trade error and nothing is counted.
OrderReturned(i, outcome) ==
    /\ i \in 1..Len(cycles)
    /\ cycles[i].pc = "order"
    /\ LET c == Resumed(cycles[i])
           id == c.active[c.idx]
           success == placeOrderDirectSuccess(outcome)
           logThrows == success /\ IsNull(strategies[id].parameters)
       IN  /\ cycles' = [cycles EXCEPT ![i] =
                  NextStrategy(IF success /\ ~logThrows THEN c
                               ELSE [c EXCEPT !.failed = @ \cup {id}])]
           /\ orders' = [orders EXCEPT
                  ![c.pending].status = IF success THEN "ok" ELSE "failed"]
           /\ timers' = ScheduleRiskOrders(timers, c, id, success)
           /\ strategies' = CountTrade(strategies, id, success /\ ~logThrows)
           /\ systemStatus' = [systemStatus EXCEPT !.logs = PushLog(@)]
           /\ logClock' = logClock + 1
    /\ UNCHANGED <<marketDataCache, riskJobs, cyclesStarted, lastCommand, budget>>
    /\ UNCHANGED historyVars
    /\ UNCHANGED candleVars
    /\ UNCHANGED panelVars
    /\ UNCHANGED engineVars
    /\ UNCHANGED chartVars
    /\ UNCHANGED callVars

\* executeAutoTrading returns (its promise settles).
CycleReturned(i) ==
    /\ i \in 1..Len(cycles)
    /\ cycles[i].pc = "done"
    /\ cycles' = [j \in 1..(Len(cycles) - 1) |->
                    IF j < i THEN cycles[j] ELSE cycles[j + 1]]
    /\ UNCHANGED <<strategies, systemStatus, marketDataCache, orders, timers,
                   riskJobs, cyclesStarted, lastCommand, logClock, budget>>
    /\ UNCHANGED historyVars
    /\ UNCHANGED candleVars
    /\ UNCHANGED panelVars
    /\ UNCHANGED engineVars
    /\ UNCHANGED chartVars
    /\ UNCHANGED callVars

\* The setTimeout callback: scheduleStopLossAndTakeProfit builds both derived
\* orders from the strategy's current parameters and sends the stop loss; when
\* reading the parameters throws, its handler logs the failure and sends none.
TimerFired(t) ==
    /\ t \in timers
    /\ LET strategy == strategies[t.strategy]
           stopLossId == OrderId(t.parentOrderId[1], t.parentOrderId[2], "sl")
       IN  IF IsNull(strategy.parameters)
           THEN /\ systemStatus' = [systemStatus EXCEPT !.logs = PushLog(@)]
                /\ logClock' = logClock + 1
                /\ UNCHANGED <<orders, riskJobs>>
           ELSE /\ orders' = MapSet(orders, stopLossId,
                                    stopLossOrder(strategy, t.signal, t.parentOrderId))
                /\ riskJobs' = riskJobs \cup
                       {[parentOrderId |-> t.parentOrderId, pc |-> "sl",
                         pending |-> stopLossId,
                         takeProfitOrder |->
                             takeProfitOrder(strategy, t.signal, t.parentOrderId)]}
                /\ UNCHANGED <<systemStatus, logClock>>
    /\ timers' = timers \ {t}
    /\ UNCHANGED <<strategies, marketDataCache, cycles, cyclesStarted,
                   lastCommand, budget>>
    /\ UNCHANGED historyVars
    /\ UNCHANGED candleVars
    /\ UNCHANGED panelVars
    /\ UNCHANGED engineVars
    /\ UNCHANGED chartVars
    /\ UNCHANGED callVars

\* placeOrderDirect returned inside scheduleStopLossAndTakeProfit: after the
\* stop loss the take profit is sent whatever the result; after the take
\* profit the log entry is written.
RiskOrderReturned(job, outcome) ==
    /\ job \in riskJobs
    /\ LET settled == [orders EXCEPT ![job.pending].status =
                          IF placeOrderDirectSuccess(outcome) THEN "ok" ELSE "failed"]
           takeProfitId == OrderId(job.parentOrderId[1], job.parentOrderId[2], "tp")
       IN  IF job.pc = "sl"
           THEN /\ orders' = MapSet(settled, takeProfitId, job.takeProfitOrder)
                /\ riskJobs' = (riskJobs \ {job}) \cup
                       {[job EXCEPT !.pc = "tp", !.pending = takeProfitId]}
                /\ UNCHANGED <<systemStatus, logClock>>
           ELSE /\ orders' = settled
                /\ riskJobs' = riskJobs \ {job}
                /\ systemStatus' = [systemStatus EXCEPT !.logs = PushLog(@)]
                /\ logClock' = logClock + 1
    /\ UNCHANGED <<strategies, marketDataCache, cycles, timers, cyclesStarted,
                   lastCommand, budget>>
    /\ UNCHANGED historyVars
    /\ UNCHANGED candleVars
    /\ UNCHANGED panelVars
    /\ UNCHANGED engineVars
    /\ UNCHANGED chartVars
    /\ UNCHANGED callVars

----------------------------------------------------------------------------
(* Routes                                                                  *)

UpdatableIds == {"rsi_oversold_1", "bollinger_bands_1"}

Quantities == {7}

\* Request bodies the dashboard sends: an enabled toggle, or the strategy's
\* parameters object with an edited quantity.
UpdatesFor(id) ==
    {[enabled |-> b] : b \in BOOLEAN}
    \cup (IF id \in DOMAIN strategies
          THEN {[parameters |-> [strategies[id].parameters EXCEPT !.quantity = q]] :
                    q \in Quantities}
          ELSE {})

\* router.put('/:strategyId')
PutStrategy(strategyId, updates) ==
    /\ budget.requests > 0
    /\ budget' = [budget EXCEPT !.requests = @ - 1]
    /\ IF strategyId \in DOMAIN strategies
       THEN /\ strategies' = [strategies EXCEPT
                   ![strategyId] = ObjectAssign(strategies[strategyId], updates)]
            /\ systemStatus' = [systemStatus EXCEPT !.logs = PushLog(@)]
            /\ logClock' = logClock + 1
       ELSE UNCHANGED <<strategies, systemStatus, logClock>>
    /\ UNCHANGED <<marketDataCache, cycles, orders, timers, riskJobs, cyclesStarted,
                   lastCommand>>
    /\ UNCHANGED historyVars
    /\ UNCHANGED candleVars
    /\ UNCHANGED panelVars
    /\ UNCHANGED engineVars
    /\ UNCHANGED chartVars
    /\ UNCHANGED callVars

\* A PUT whose body is { parameters: null }.
MalformedUpdate == [parameters |-> NullParameters]

PutMalformed(strategyId) == PutStrategy(strategyId, MalformedUpdate)

\* Request bodies any authenticated caller can send: a toggle, a parameters
\* object that is complete or holds the edited quantity alone, or a
\* performance object with one entry.
PartialUpdatesFor(id) ==
    UpdatesFor(id)
    \cup {[parameters |-> [quantity |-> q]] : q \in Quantities}
    \cup {[performance |-> [totalTrades |-> 0]]}

\* A handler that updates the status text but never clears the flag.
PostAutoTradingKeepsFlag(enabled) ==
    /\ budget.requests > 0
    /\ budget' = [budget EXCEPT !.requests = @ - 1]
    /\ systemStatus' = [status |-> IF enabled THEN "running" ELSE "stopped",
                        autoTradingEnabled |-> (enabled \/ systemStatus.autoTradingEnabled),
                        logs |-> PushLog(systemStatus.logs)]
    /\ logClock' = logClock + 1
    /\ lastCommand' = IF enabled THEN "enable" ELSE "disable"
    /\ UNCHANGED <<strategies, marketDataCache, cycles, orders, timers, riskJobs,
                   cyclesStarted>>
    /\ UNCHANGED historyVars
    /\ UNCHANGED candleVars
    /\ UNCHANGED panelVars
    /\ UNCHANGED engineVars
    /\ UNCHANGED chartVars
    /\ UNCHANGED callVars

\* A handler that derives the status text from the flag before updating it.
PostAutoTradingStaleStatus(enabled) ==
    /\ budget.requests > 0
    /\ budget' = [budget EXCEPT !.requests = @ - 1]
    /\ systemStatus' = [status |-> IF systemStatus.autoTradingEnabled
                                   THEN "running" ELSE "stopped",
                        autoTradingEnabled |-> enabled,
                        logs |-> PushLog(systemStatus.logs)]
    /\ logClock' = logClock + 1
    /\ lastCommand' = IF enabled THEN "enable" ELSE "disable"
    /\ UNCHANGED <<strategies, marketDataCache, cycles, orders, timers, riskJobs,
                   cyclesStarted>>
    /\ UNCHANGED historyVars
    /\ UNCHANGED candleVars
    /\ UNCHANGED panelVars
    /\ UNCHANGED engineVars
    /\ UNCHANGED chartVars
    /\ UNCHANGED callVars

\* router.post('/system/auto-trading')
PostAutoTrading(enabled) ==
    /\ budget.requests > 0
    /\ budget' = [budget EXCEPT !.requests = @ - 1]
    /\ systemStatus' = [status |-> IF enabled THEN "running" ELSE "stopped",
                        autoTradingEnabled |-> enabled,
                        logs |-> PushLog(systemStatus.logs)]
    /\ logClock' = logClock + 1
    /\ lastCommand' = IF enabled THEN "enable" ELSE "disable"
    /\ UNCHANGED <<strategies, marketDataCache, cycles, orders, timers, riskJobs,
                   cyclesStarted>>
    /\ UNCHANGED historyVars
    /\ UNCHANGED candleVars
    /\ UNCHANGED panelVars
    /\ UNCHANGED engineVars
    /\ UNCHANGED chartVars
    /\ UNCHANGED callVars

----------------------------------------------------------------------------
(* Candle helpers                                                          *)

Bucket(timestamp, intervalSec) == (timestamp \div intervalSec) * intervalSec

\* A new candle appended without trimming the list.
addOrUpdateCandleUntrimmed(cs, price, timestamp, intervalSec) ==
    LET candleTime == Bucket(timestamp, intervalSec)
    IN  IF cs = <<>> \/ Last(cs).time # candleTime
        THEN Append(cs, [time |-> candleTime, open |-> price, high |-> price,
                         low |-> price, close |-> price])
        ELSE Append(SubSeq(cs, 1, Len(cs) - 1),
                    [Last(cs) EXCEPT !.high = Max(Last(cs).high, price),
                                     !.low = Min(Last(cs).low, price),
                                     !.close = price])

\* An update that overwrites high and low with the tick instead of widening.
addOrUpdateCandleOverwrites(cs, price, timestamp, intervalSec) ==
    LET candleTime == Bucket(timestamp, intervalSec)
    IN  IF cs = <<>> \/ Last(cs).time # candleTime
        THEN SliceLast(Append(cs, [time |-> candleTime, open |-> price, high |-> price,
                                   low |-> price, close |-> price]),
                       CandleCap)
        ELSE Append(SubSeq(cs, 1, Len(cs) - 1),
                    [Last(cs) EXCEPT !.high = price, !.low = price, !.close = price])

\* A candle started for every tick that opens an interval, put in front of
\* the list instead of behind it.
addOrUpdateCandlePrepends(cs, price, timestamp, intervalSec) ==
    LET candleTime == Bucket(timestamp, intervalSec)
    IN  IF cs = <<>> \/ Last(cs).time # candleTime
        THEN SliceLast(<<[time |-> candleTime, open |-> price, high |-> price,
                          low |-> price, close |-> price]>> \o cs,
                       CandleCap)
        ELSE Append(SubSeq(cs, 1, Len(cs) - 1),
                    [Last(cs) EXCEPT !.high = Max(Last(cs).high, price),
                                     !.low = Min(Last(cs).low, price),
                                     !.close = price])

addOrUpdateCandle(cs, price, timestamp, intervalSec) ==
    LET candleTime == Bucket(timestamp, intervalSec)
    IN  IF cs = <<>> \/ Last(cs).time # candleTime
        THEN SliceLast(Append(cs, [time |-> candleTime, open |-> price, high |-> price,
                                   low |-> price, close |-> price]),
                       CandleCap)
        ELSE Append(SubSeq(cs, 1, Len(cs) - 1),
                    [Last(cs) EXCEPT !.high = Max(Last(cs).high, price),
                                     !.low = Min(Last(cs).low, price),
                                     !.close = price])

updateCandles(cs, newPrice, timestamp, intervalSec) ==
    LET candleTime == Bucket(timestamp, intervalSec)
    IN  IF cs = <<>> \/ Last(cs).time # candleTime
        THEN SliceLast(Append(cs, [time |-> candleTime, open |-> newPrice,
                                   high |-> newPrice, low |-> newPrice,
                                   close |-> newPrice]),
                       CandleCap)
        ELSE Append(SubSeq(cs, 1, Len(cs) - 1),
                    [Last(cs) EXCEPT !.high = Max(Last(cs).high, newPrice),
                                     !.low = Min(Last(cs).low, newPrice),
                                     !.close = newPrice])

TickPrices == {1, 2}

\* The ticks the feed may deliver next: while the list is far from its cap
\* one tick per interval at a fixed price pattern; near the cap any of the
\* next interval, the same interval or the previous interval at any price.
TickChoices ==
    IF tickCount < CandleCap - CandleFree
    THEN {<<candleClock + IntervalSec, (tickCount % 3) + 1>>}
    ELSE {<<ts, p>> : ts \in {candleClock + IntervalSec, candleClock + 1,
                              candleClock - IntervalSec},
                     p \in TickPrices}

\* Bookkeeping of a delivered tick: a new candle is due when the tick's
\* interval differs from the interval of the tick before it.
TickDelivered(timestamp) ==
    /\ tickCount < CandleCap + CandleExtra
    /\ timestamp >= 0
    /\ tickCount' = tickCount + 1
    /\ candleClock' = timestamp
    /\ ticksInOrder' = (ticksInOrder /\ (tickCount = 0 \/ timestamp >= candleClock))
    /\ appended' = IF tickCount = 0
                      \/ Bucket(timestamp, IntervalSec) # Bucket(candleClock, IntervalSec)
                   THEN Append(appended, Bucket(timestamp, IntervalSec))
                   ELSE appended

\* socket.on('indexMarketData'): the panel feeds the tick to addOrUpdateCandle.
AddOrUpdateCandleCall(price, timestamp) ==
    /\ TickDelivered(timestamp)
    /\ candles' = addOrUpdateCandle(candles, price, timestamp, IntervalSec)
    /\ UNCHANGED serverVars
    /\ UNCHANGED historyVars
    /\ UNCHANGED callVars
    /\ UNCHANGED panelVars
    /\ UNCHANGED engineVars
    /\ UNCHANGED chartVars

\* The same tick handled by the candleAggregator variant.
UpdateCandlesCall(price, timestamp) ==
    /\ TickDelivered(timestamp)
    /\ candles' = updateCandles(candles, price, timestamp, IntervalSec)
    /\ UNCHANGED serverVars
    /\ UNCHANGED historyVars
    /\ UNCHANGED callVars
    /\ UNCHANGED panelVars
    /\ UNCHANGED engineVars
    /\ UNCHANGED chartVars

----------------------------------------------------------------------------
(* Direct calls of the evaluation functions                                *)

\* The switch of evaluateStrategy on strategy.type.
evaluateByType(strategy, history) ==
    CASE strategy.type = "ema_crossover" ->
           evaluateEMACrossover(history, strategy.parameters)
      [] strategy.type = "rsi_oversold" ->
           evaluateRSIOversold(history, strategy.parameters)
      [] strategy.type = "sma_trend" ->
           evaluateSMATrend(history, strategy.parameters)
      [] strategy.type = "bollinger_bands" ->
           evaluateBollingerBands(history, strategy.parameters)
      [] OTHER -> null

\* The number of samples below which the evaluate* function of the
\* strategy's type returns HOLD at once.
Lookback(strategy) ==
    CASE strategy.type = "ema_crossover" -> strategy.parameters.slowPeriod
      [] strategy.type = "rsi_oversold" -> strategy.parameters.rsiPeriod + 1
      [] strategy.type = "sma_trend" -> strategy.parameters.longPeriod
      [] OTHER -> strategy.parameters.period

SeriesKinds == {"falling", "rising", "flat", "swinging"}

\* Price series of n samples.
Series(kind, n) ==
    [i \in 1..n |->
        CASE kind = "falling" -> 40 - i
          [] kind = "rising" -> 20 + i
          [] kind = "flat" -> 2
          [] OTHER -> IF i % 2 = 1 THEN 1 ELSE 3]

\* Parameters a strategy may hold when it is evaluated: its defaults, a longer
\* lookback set by a PUT, or null.
ParameterChoices(id) ==
    {defaultStrategies[id].parameters, NullParameters}
    \cup (IF id = "rsi_oversold_1"
          THEN {[defaultStrategies[id].parameters EXCEPT !.rsiPeriod = 21]}
          ELSE IF id = "bollinger_bands_1"
          THEN {[defaultStrategies[id].parameters EXCEPT !.period = 22]}
          ELSE {})

\* Sample counts of the direct evaluations.  An EMA of period 9 or 21 over 21
\* samples has a denominator beyond the integers of the checker, so the
\* crossover strategy is evaluated only below its lookback (or with null
\* parameters, where no EMA is computed).
SampleCounts(id, parameters) ==
    IF id = "ema_crossover_1" /\ ~IsNull(parameters)
    THEN 0..Min(MinHistory + EvalExtra, parameters.slowPeriod - 1)
    ELSE 0..(MinHistory + EvalExtra)

\* evaluateStrategy(strategy) called with the given history of its symbol.
EvaluateStrategyCall(id, parameters, prices) ==
    /\ LET strategy == [strategies[id] EXCEPT !.parameters = parameters]
           hist == MapSet(priceHistory, strategy.symbol, prices)
           threw == evaluateStrategyThrows(strategy, hist)
           signal == IF threw THEN null ELSE evaluateStrategy(strategy, hist)
       IN  evaluated' =
               [fn |-> "evaluateStrategy",
                strategy |-> strategy,
                prices |-> prices,
                threw |-> threw,
                signal |-> signal,
                gated |-> PassesGate(signal),
                byType |-> IF IsNull(parameters) THEN null
                           ELSE evaluateByType(strategy, prices)]
    /\ UNCHANGED serverVars
    /\ UNCHANGED historyVars
    /\ UNCHANGED candleVars
    /\ UNCHANGED panelVars
    /\ UNCHANGED engineVars
    /\ UNCHANGED chartVars

EmaPrices == {1, 2, 3}

\* fastPeriod / slowPeriod pairs whose multipliers (1, 2/3, 1/2) are small
\* fractions.
EmaPeriods == {<<1, 2>>, <<1, 3>>, <<2, 3>>}

\* All price sequences of a given length.
RECURSIVE PriceSeqs(_)
PriceSeqs(n) ==
    IF n = 0 THEN {<<>>}
    ELSE {Append(front, price) : front \in PriceSeqs(n - 1), price \in EmaPrices}

\* evaluateEMACrossover(prices, parameters) called directly.
EvaluateEMACrossoverCall(prices, periods) ==
    /\ LET parameters == [fastPeriod |-> periods[1], slowPeriod |-> periods[2]]
       IN  evaluated' =
               [fn |-> "evaluateEMACrossover",
                prices |-> prices,
                parameters |-> parameters,
                signal |-> evaluateEMACrossover(prices, parameters)]
    /\ UNCHANGED serverVars
    /\ UNCHANGED historyVars
    /\ UNCHANGED candleVars
    /\ UNCHANGED panelVars
    /\ UNCHANGED engineVars
    /\ UNCHANGED chartVars

----------------------------------------------------------------------------
(* Trading panel (unnamed/part_003)                                        *)

\* useState(null) for authStatus.
NoAuthStatus == [known |-> FALSE, isValid |-> FALSE, needsLogin |-> FALSE]

ValidStatus == [known |-> TRUE, isValid |-> TRUE, needsLogin |-> FALSE]

ExpiredStatus == [known |-> TRUE, isValid |-> FALSE, needsLogin |-> TRUE]

\* checkAuthStatus, run once by the mount effect: the status the service
\* returns is stored; a failed call is only written to the console.
CheckAuthStatusReturned(outcome) ==
    /\ panel.mounting
    /\ panel' = [panel EXCEPT
            !.mounting = FALSE,
            !.authStatus = CASE outcome = "valid" -> ValidStatus
                             [] outcome = "expired" -> ExpiredStatus
                             [] OTHER -> @]
    /\ UNCHANGED serverVars
    /\ UNCHANGED historyVars
    /\ UNCHANGED candleVars
    /\ UNCHANGED callVars
    /\ UNCHANGED engineVars
    /\ UNCHANGED chartVars

\* validateUserToken (the Validate button), on return of validateToken.
ValidateUserToken(outcome) ==
    /\ ~panel.mounting
    /\ panel' = [panel EXCEPT
            !.authStatus = CASE outcome = "valid" -> ValidStatus
                             [] outcome = "expired" -> ExpiredStatus
                             [] OTHER -> @]
    /\ UNCHANGED serverVars
    /\ UNCHANGED historyVars
    /\ UNCHANGED candleVars
    /\ UNCHANGED callVars
    /\ UNCHANGED engineVars
    /\ UNCHANGED chartVars

\* handleSubmit with a complete order form: refused while authStatus.needsLogin,
\* otherwise handed to tradingService.placeOrder.
HandleSubmit ==
    /\ panel.placed + panel.refused < MaxSubmits
    /\ IF panel.authStatus.needsLogin
       THEN panel' = [panel EXCEPT !.refused = @ + 1]
       ELSE panel' = [panel EXCEPT !.placed = @ + 1, !.pending = @ + 1]
    /\ UNCHANGED serverVars
    /\ UNCHANGED historyVars
    /\ UNCHANGED candleVars
    /\ UNCHANGED callVars
    /\ UNCHANGED engineVars
    /\ UNCHANGED chartVars

\* tradingService.placeOrder returned or threw inside handleSubmit; an error
\* with isTokenExpired sets needsLogin.
PlaceOrderReturned(outcome) ==
    /\ panel.pending > 0
    /\ panel' = [panel EXCEPT
            !.pending = @ - 1,
            !.authStatus = IF outcome = "expired" THEN ExpiredStatus ELSE @]
    /\ UNCHANGED serverVars
    /\ UNCHANGED historyVars
    /\ UNCHANGED candleVars
    /\ UNCHANGED callVars
    /\ UNCHANGED engineVars
    /\ UNCHANGED chartVars

\* handleLoginRedirect (Login Again): the session is cleared and, after the
\* login, the panel is mounted anew.
HandleLoginRedirect ==
    /\ panel.authStatus.needsLogin
    /\ panel' = [panel EXCEPT !.authStatus = NoAuthStatus, !.mounting = TRUE,
                              !.pending = 0]
    /\ UNCHANGED serverVars
    /\ UNCHANGED historyVars
    /\ UNCHANGED candleVars
    /\ UNCHANGED callVars
    /\ UNCHANGED engineVars
    /\ UNCHANGED chartVars

AuthOutcomes == {"valid", "expired", "error"}

----------------------------------------------------------------------------
(* Live trading engine (components/LiveTradingEngine.tsx)                  *)
(* Prices and PnL are in hundredths of a rupee; volume figures in tenths.  *)

\* useState of `strategies`: the two configured symbols.
liveStrategies ==
    [symbol \in {"BANKNIFTY", "NIFTY"} |->
        IF symbol = "BANKNIFTY"
        THEN [symbol |-> symbol, enabled |-> TRUE, quantity |-> 15,
              stopLoss |-> 50, takeProfit |-> 100, maxPositions |-> 2,
              conditions |-> [rsiOverbought |-> 70, rsiOversold |-> 30,
                              emaSignal |-> TRUE, volumeThreshold |-> 15,
                              priceAction |-> TRUE]]
        ELSE [symbol |-> symbol, enabled |-> TRUE, quantity |-> 25,
              stopLoss |-> 30, takeProfit |-> 60, maxPositions |-> 2,
              conditions |-> [rsiOverbought |-> 75, rsiOversold |-> 25,
                              emaSignal |-> TRUE, volumeThreshold |-> 12,
                              priceAction |-> TRUE]]]

\* The buy and sell votes generateSignal counts, in the order of its tests.
countVotes(strategy, currentPrice, indicators) ==
    LET rsi == IF indicators.rsi < strategy.conditions.rsiOversold THEN <<1, 0>>
               ELSE IF indicators.rsi > strategy.conditions.rsiOverbought THEN <<0, 1>>
               ELSE <<0, 0>>
        ema == IF ~strategy.conditions.emaSignal THEN rsi
               ELSE IF indicators.ema9 > indicators.ema21 THEN <<rsi[1] + 1, rsi[2]>>
               ELSE IF indicators.ema9 < indicators.ema21 THEN <<rsi[1], rsi[2] + 1>>
               ELSE rsi
        vol == IF ~(indicators.volumeRatio > strategy.conditions.volumeThreshold) THEN ema
               ELSE IF ema[1] > ema[2] THEN <<ema[1] + 1, ema[2]>>
               ELSE IF ema[2] > ema[1] THEN <<ema[1], ema[2] + 1>>
               ELSE ema
        band == IF ~strategy.conditions.priceAction THEN vol
                ELSE IF currentPrice < indicators.bollingerLower THEN <<vol[1] + 1, vol[2]>>
                ELSE IF currentPrice > indicators.bollingerUpper THEN <<vol[1], vol[2] + 1>>
                ELSE vol
    IN  IF indicators.macd > indicators.macdSignal THEN <<band[1] + 1, band[2]>>
        ELSE IF indicators.macd < indicators.macdSignal THEN <<band[1], band[2] + 1>>
        ELSE band

\* A signal emitted from two same-direction votes.
generateSignalFromTwo(strats, symbol, currentPrice, indicators) ==
    IF symbol \notin DOMAIN strats \/ ~strats[symbol].enabled
    THEN [symbol |-> symbol, action |-> "HOLD", strength |-> Rat(0, 1),
          price |-> currentPrice]
    ELSE LET votes == countVotes(strats[symbol], currentPrice, indicators)
             buySignals == votes[1]
             sellSignals == votes[2]
         IN  IF buySignals > sellSignals /\ buySignals >= 2
             THEN [symbol |-> symbol, action |-> "BUY",
                   strength |-> RatMin(1, Rat(buySignals, 5)), price |-> currentPrice]
             ELSE IF sellSignals > buySignals /\ sellSignals >= 2
             THEN [symbol |-> symbol, action |-> "SELL",
                   strength |-> RatMin(1, Rat(sellSignals, 5)), price |-> currentPrice]
             ELSE [symbol |-> symbol, action |-> "HOLD", strength |-> Rat(0, 1),
                   price |-> currentPrice]

generateSignal(strats, symbol, currentPrice, indicators) ==
    IF symbol \notin DOMAIN strats \/ ~strats[symbol].enabled
    THEN [symbol |-> symbol, action |-> "HOLD", strength |-> Rat(0, 1),
          price |-> currentPrice]
    ELSE LET votes == countVotes(strats[symbol], currentPrice, indicators)
             buySignals == votes[1]
             sellSignals == votes[2]
         IN  IF buySignals > sellSignals /\ buySignals >= 3
             THEN [symbol |-> symbol, action |-> "BUY",
                   strength |-> RatMin(1, Rat(buySignals, 5)), price |-> currentPrice]
             ELSE IF sellSignals > buySignals /\ sellSignals >= 3
             THEN [symbol |-> symbol, action |-> "SELL",
                   strength |-> RatMin(1, Rat(sellSignals, 5)), price |-> currentPrice]
             ELSE [symbol |-> symbol, action |-> "HOLD", strength |-> Rat(0, 1),
                   price |-> currentPrice]

\* PnL as checkExitConditions computes it.
positionPnL(position, currentPrice) ==
    IF position.side = "BUY"
    THEN (currentPrice - position.entryPrice) * position.quantity
    ELSE (position.entryPrice - currentPrice) * position.quantity

\* exitPosition: the orderData handed to tradingService.placeOrder.
exitOrderData(position, exitPrice) ==
    [trading_symbol |-> position.symbol,
     quantity |-> position.quantity,
     price |-> exitPrice,
     order_type |-> "MARKET",
     transaction_type |-> IF position.side = "BUY" THEN "SELL" ELSE "BUY",
     product |-> "MIS",
     tag |-> <<"exit", position.id>>]

\* A stop-loss test that leaves out the boundary.
checkExitConditionsStrict(strats, position, currentPrice) ==
    IF position.symbol \notin DOMAIN strats THEN <<>>
    ELSE LET strategy == strats[position.symbol]
             pnl == positionPnL(position, currentPrice)
         IN  IF pnl < -(strategy.stopLoss * 100)
             THEN <<exitOrderData(position, currentPrice)>>
             ELSE IF pnl >= strategy.takeProfit * 100
             THEN <<exitOrderData(position, currentPrice)>>
             ELSE <<>>

\* checkExitConditions: the orders it submits through exitPosition.
checkExitConditions(strats, position, currentPrice) ==
    IF position.symbol \notin DOMAIN strats THEN <<>>
    ELSE LET strategy == strats[position.symbol]
             pnl == positionPnL(position, currentPrice)
         IN  IF pnl <= -(strategy.stopLoss * 100)
             THEN <<exitOrderData(position, currentPrice)>>
             ELSE IF pnl >= strategy.takeProfit * 100
             THEN <<exitOrderData(position, currentPrice)>>
             ELSE <<>>

EntryPrice == 1000000

MoveStep == 20

\* The position executeTrade records for an acknowledged entry order.
OpenPosition(symbol, side) ==
    [id |-> <<"pos", symbol, side>>, symbol |-> symbol, side |-> side,
     quantity |-> liveStrategies[symbol].quantity, entryPrice |-> EntryPrice]

\* The positions the engine can hold: either side of a configured symbol.
OpenPositions ==
    {OpenPosition(symbol, side) : symbol \in DOMAIN liveStrategies, side \in {"BUY", "SELL"}}

\* checkExitConditions(position, currentPrice) called for an open position.
CheckExitConditionsCall(position, currentPrice) ==
    /\ evaluated' = [fn |-> "checkExitConditions",
                     position |-> position,
                     currentPrice |-> currentPrice,
                     submitted |-> checkExitConditions(liveStrategies, position,
                                                       currentPrice)]
    /\ UNCHANGED serverVars
    /\ UNCHANGED historyVars
    /\ UNCHANGED candleVars
    /\ UNCHANGED panelVars
    /\ UNCHANGED engineVars
    /\ UNCHANGED chartVars

\* Indicator snapshots: each figure below, between or above what it is
\* compared with.
IndicatorChoices ==
    [rsi : {20, 50, 80}, ema9 : {1, 2, 3}, ema21 : {2}, volumeRatio : {10, 20},
     bollingerLower : {2}, bollingerUpper : {4}, macd : {0, 1, 2}, macdSignal : {1}]

LiveSymbols == {"BANKNIFTY", "NIFTY", "RELIANCE"}

\* generateSignal(symbol, currentPrice, indicators) called directly.
GenerateSignalCall(symbol, currentPrice, indicators) ==
    /\ evaluated' = [fn |-> "generateSignal",
                     symbol |-> symbol,
                     currentPrice |-> currentPrice,
                     indicators |-> indicators,
                     signal |-> generateSignal(liveStrategies, symbol, currentPrice,
                                               indicators)]
    /\ UNCHANGED serverVars
    /\ UNCHANGED historyVars
    /\ UNCHANGED candleVars
    /\ UNCHANGED panelVars
    /\ UNCHANGED engineVars
    /\ UNCHANGED chartVars

\* An EMA that answers 0 for a list of one price as it does for none.
calculateEMAOfOneIsZero(prices, period) ==
    IF Len(prices) <= 1 THEN 0
    ELSE LET RECURSIVE ema(_)
             ema(i) == IF i = 1 THEN Rat(prices[1], 1)
                       ELSE LET prev == ema(i - 1)
                            IN  Rat(2 * prices[i] * prev.den + (period - 1) * prev.num,
                                    (period + 1) * prev.den)
         IN  ema(Len(prices))

\* calculateEMA of the live engine: 0 for no price, the price itself for one
\* price, otherwise ema = (price - ema) * 2 / (period + 1) + ema from the
\* first price on (an exact fraction).
calculateEMALive(prices, period) ==
    IF Len(prices) = 0 THEN 0
    ELSE IF Len(prices) = 1 THEN prices[1]
    ELSE LET RECURSIVE ema(_)
             ema(i) == IF i = 1 THEN Rat(prices[1], 1)
                       ELSE LET prev == ema(i - 1)
                            IN  Rat(2 * prices[i] * prev.den + (period - 1) * prev.num,
                                    (period + 1) * prev.den)
         IN  ema(Len(prices))

\* calculateIndicators on fewer than 50 prices: fixed values around the
\* last price (volumeRatio in tenths).
indicatorsOfShortHistory(lastPrice) ==
    [rsi |-> 50, ema9 |-> lastPrice, ema21 |-> lastPrice, volumeRatio |-> 10,
     bollingerLower |-> lastPrice, bollingerUpper |-> lastPrice,
     macd |-> 0, macdSignal |-> 0]

\* calculateIndicators on 50 prices or more, as far as generateSignal reads
\* the result: `known` holds rsi, the EMAs of 9 and 21, the bands and the
\* volume ratio; macd and macdSignal are derived from the EMAs of 12 and 26.
calculateIndicators(known, ema12, ema26) ==
    LET macd == ema12 - ema26
        macdSignal == calculateEMALive(<<macd>>, 9)
    IN  [rsi |-> known.rsi, ema9 |-> known.ema9, ema21 |-> known.ema21,
         volumeRatio |-> known.volumeRatio,
         bollingerLower |-> known.bollingerLower,
         bollingerUpper |-> known.bollingerUpper,
         macd |-> macd, macdSignal |-> macdSignal]

\* The indicators a history can give apart from the MACD pair.
KnownIndicators ==
    [rsi : {20, 50, 80}, ema9 : {1, 2, 3}, ema21 : {2}, volumeRatio : {10, 20},
     bollingerLower : {2}, bollingerUpper : {4}]

\* EMAs of 12 and 26 prices, as far as their order matters.
MacdEmas == {1, 2, 3}

\* runTradingLoop's calculateIndicators followed by generateSignal, for a
\* history of 50 prices or more.
CalculateIndicatorsCall(symbol, currentPrice, known, ema12, ema26) ==
    /\ LET indicators == calculateIndicators(known, ema12, ema26)
       IN  evaluated' = [fn |-> "calculateIndicators",
                         symbol |-> symbol,
                         currentPrice |-> currentPrice,
                         indicators |-> indicators,
                         signal |-> generateSignal(liveStrategies, symbol,
                                                   currentPrice, indicators)]
    /\ UNCHANGED serverVars
    /\ UNCHANGED historyVars
    /\ UNCHANGED candleVars
    /\ UNCHANGED panelVars
    /\ UNCHANGED engineVars
    /\ UNCHANGED chartVars

\* The same for a history of fewer than 50 prices.
CalculateIndicatorsShortCall(symbol, currentPrice) ==
    /\ LET indicators == indicatorsOfShortHistory(currentPrice)
       IN  evaluated' = [fn |-> "calculateIndicators",
                         symbol |-> symbol,
                         currentPrice |-> currentPrice,
                         indicators |-> indicators,
                         signal |-> generateSignal(liveStrategies, symbol,
                                                   currentPrice, indicators)]
    /\ UNCHANGED serverVars
    /\ UNCHANGED historyVars
    /\ UNCHANGED candleVars
    /\ UNCHANGED panelVars
    /\ UNCHANGED engineVars
    /\ UNCHANGED chartVars

----------------------------------------------------------------------------
(* Live trading engine: state and handlers                                 *)
(* Display-only state (logs, the indicators shown) is not kept.  Time is   *)
(* in seconds.                                                             *)

EngineSymbols == <<"BANKNIFTY", "NIFTY">>

\* basePrice of generateMockPrice and of the mount effect, in hundredths.
BasePrice(symbol) == IF symbol = "BANKNIFTY" THEN 4508224 ELSE 1944887

BaseVolume(symbol) == IF symbol = "BANKNIFTY" THEN 800000 ELSE 700000

StartTime == 1000

NoInterval == [set |-> FALSE]

NoPerformanceYet == [totalPnL |-> 0, totalTrades |-> 0, winRate |-> Rat(0, 1)]

\* The component after its mount effects: InitialSamples prices and volumes
\* per symbol (here the base values, one of the draws of the effect).
EngineMounted(ticks, clicks) ==
    [isRunning |-> FALSE,
     interval |-> NoInterval,
     priceHistory |-> [symbol \in {"BANKNIFTY", "NIFTY"} |->
                          [i \in 1..InitialSamples |-> BasePrice(symbol)]],
     volumeHistory |-> [symbol \in {"BANKNIFTY", "NIFTY"} |->
                           [i \in 1..InitialSamples |-> BaseVolume(symbol)]],
     signals |-> <<>>,
     positions |-> <<>>,
     entries |-> {},
     exits |-> {},
     lastTradeTime |-> [symbol \in {"BANKNIFTY", "NIFTY"} |-> 0],
     performance |-> NoPerformanceYet,
     now |-> StartTime,
     nextId |-> 1,
     generated |-> 0,
     placed |-> <<>>,
     response |-> [kind |-> "none"],
     refused |-> <<>>,
     budget |-> [ticks |-> ticks, clicks |-> clicks, calls |-> MaxLoopCalls]]

EngineInit == engine = EngineMounted(MaxEngineTicks, MaxClicks)

\* generateMockPrice: the last price plus a random change, not below 95% of
\* the base price.
generateMockPrice(e, symbol, change) ==
    LET history == e.priceHistory[symbol]
        lastPrice == IF history = <<>> \/ Last(history) = 0
                     THEN BasePrice(symbol) ELSE Last(history)
    IN  Max(lastPrice + change, (95 * BasePrice(symbol)) \div 100)

\* push followed by slice(-100) when the list has grown past the cap.
PushCapped(list, x) == SliceLast(Append(list, x), LiveHistoryCap)

\* exitPosition up to its await: the exit order is handed to
\* tradingService.placeOrder.
exitPosition(e, position, exitPrice) ==
    [e EXCEPT
        !.exits = @ \cup {[n |-> Len(e.placed) + 1,
                           position |-> position, exitPrice |-> exitPrice,
                           order |-> exitOrderData(position, exitPrice)]},
        !.placed = Append(@, [kind |-> "exit", symbol |-> position.symbol,
                              position |-> position.id, at |-> e.now])]

\* checkExitConditions up to its first await, for a position object of the
\* render whose loop is running: the stored position with the same id gets
\* the new price and PnL, and the exit is started when a limit is reached.
checkExit(e, position, currentPrice) ==
    LET pnl == positionPnL(position, currentPrice)
        marked == [e EXCEPT !.positions =
                      [i \in 1..Len(@) |->
                          IF @[i].id = position.id
                          THEN [@[i] EXCEPT !.currentPrice = currentPrice, !.pnl = pnl]
                          ELSE @[i]]]
    IN  IF checkExitConditions(liveStrategies, position, currentPrice) = <<>>
        THEN marked
        ELSE exitPosition(marked, position, currentPrice)

RECURSIVE checkExits(_, _, _)
checkExits(e, seen, currentPrice) ==
    IF seen = <<>> THEN e
    ELSE checkExits(checkExit(e, Head(seen), currentPrice), Tail(seen), currentPrice)

\* executeTrade up to its await, with the positions of the render whose
\* loop is running: the limits are tested and the entry order is handed to
\* tradingService.placeOrder.
executeTrade(e, seen, signal) ==
    IF signal.action = "HOLD" \/ RatLT(signal.strength, Rat(3, 5)) THEN e
    ELSE IF signal.symbol \notin DOMAIN liveStrategies THEN e
    ELSE LET strategy == liveStrategies[signal.symbol]
             currentPositions == SelectSeq(seen, LAMBDA p : p.symbol = signal.symbol)
         IN  IF Len(currentPositions) >= strategy.maxPositions THEN e
             ELSE IF e.now - e.lastTradeTime[signal.symbol] < MinTradeGap THEN e
             ELSE [e EXCEPT
                     !.entries = @ \cup {[id |-> e.nextId, signal |-> signal,
                                          quantity |-> strategy.quantity]},
                     !.nextId = @ + 1,
                     !.placed = Append(@, [kind |-> "entry", symbol |-> signal.symbol,
                                           position |-> e.nextId, at |-> e.now])]

\* The indicators calculateIndicators returns, as far as generateSignal reads
\* them, for a feed that is oversold in an uptrend on high volume ("buy"),
\* the mirror image ("sell"), or neither; the price lies inside the bands and
\* macdSignal equals macd.
Snapshot(kind, currentPrice) ==
    [rsi |-> CASE kind = "buy" -> 20 [] kind = "sell" -> 80 [] OTHER -> 50,
     ema9 |-> CASE kind = "buy" -> 3 [] kind = "sell" -> 1 [] OTHER -> 2,
     ema21 |-> 2,
     volumeRatio |-> IF kind = "flat" THEN 10 ELSE 20,
     bollingerLower |-> currentPrice - 1,
     bollingerUpper |-> currentPrice + 1,
     macd |-> 0,
     macdSignal |-> 0]

\* One iteration of the forEach of runTradingLoop, from the signal on.
actOnSignal(e, seen, symbol, currentPrice, signal) ==
    LET kept == IF signal.action = "HOLD" THEN e
                ELSE [e EXCEPT !.signals =
                         SubSeq(<<signal>> \o @, 1, Min(Len(@) + 1, SignalsKept))]
        traded == executeTrade(kept, seen, signal)
    IN  checkExits(traded, SelectSeq(seen, LAMBDA p : p.symbol = symbol), currentPrice)

\* One iteration of the forEach of runTradingLoop.
processSymbol(e, seen, symbol, draw) ==
    LET currentPrice == generateMockPrice(e, symbol, draw.change)
        pushed1 == [e EXCEPT
                      !.priceHistory[symbol] = PushCapped(@, currentPrice),
                      !.volumeHistory[symbol] = PushCapped(@, BaseVolume(symbol)),
                      !.generated = @ + 1]
    IN  actOnSignal(pushed1, seen, symbol, currentPrice,
                    generateSignal(liveStrategies, symbol, currentPrice,
                                   Snapshot(draw.feed, currentPrice)))

RECURSIVE processSymbols(_, _, _, _)
processSymbols(e, seen, symbols, draws) ==
    IF symbols = <<>> THEN e
    ELSE processSymbols(
            IF liveStrategies[Head(symbols)].enabled
            THEN processSymbol(e, seen, Head(symbols), draws[Head(symbols)])
            ELSE e,
            seen, Tail(symbols), draws)

\* runTradingLoop as defined in a render whose isRunning and positions are
\* those of `closure`.
runTradingLoop(e, closure, draws) ==
    IF ~closure.isRunning THEN e
    ELSE processSymbols(e, closure.positions, EngineSymbols, draws)

\* startTrading: setIsRunning(true) takes effect with the next render; the
\* interval is given runTradingLoop of the render in which the button was
\* pressed.
startTrading(e) ==
    [e EXCEPT !.isRunning = TRUE,
              !.interval = [set |-> TRUE, isRunning |-> e.isRunning,
                            positions |-> e.positions]]

\* What the random parts of one loop iteration can come to.
Changes(symbol) == IF symbol = "BANKNIFTY" THEN {0} ELSE {-120, 0, 240}

Feeds(symbol) == IF symbol = "BANKNIFTY" THEN {"flat"} ELSE {"flat", "buy", "sell"}

Draws ==
    {[symbol \in {"BANKNIFTY", "NIFTY"} |->
         IF symbol = "BANKNIFTY" THEN [change |-> 0, feed |-> "flat"] ELSE nifty] :
     nifty \in [change : Changes("NIFTY"), feed : Feeds("NIFTY")]}

\* The Start button, shown while the engine is stopped.
StartTrading ==
    /\ ~engine.isRunning
    /\ engine.budget.clicks > 0
    /\ engine' = [startTrading(engine) EXCEPT !.budget.clicks = @ - 1]
    /\ UNCHANGED serverVars
    /\ UNCHANGED historyVars
    /\ UNCHANGED candleVars
    /\ UNCHANGED callVars
    /\ UNCHANGED panelVars
    /\ UNCHANGED chartVars

\* The Stop button, shown while the engine is running: stopTrading clears
\* the interval.
StopTrading ==
    /\ engine.isRunning
    /\ engine.budget.clicks > 0
    /\ engine' = [engine EXCEPT !.isRunning = FALSE, !.interval = NoInterval,
                                !.budget.clicks = @ - 1]
    /\ UNCHANGED serverVars
    /\ UNCHANGED historyVars
    /\ UNCHANGED candleVars
    /\ UNCHANGED callVars
    /\ UNCHANGED panelVars
    /\ UNCHANGED chartVars

\* runTradingLoop of the current render is called while the engine is
\* running, `elapsed` seconds after the previous event.
RunTradingLoopCall(draws, elapsed) ==
    /\ engine.isRunning
    /\ engine.budget.calls > 0
    /\ LET e == [engine EXCEPT !.now = @ + elapsed, !.budget.calls = @ - 1]
       IN  engine' = runTradingLoop(e, [isRunning |-> e.isRunning,
                                        positions |-> e.positions], draws)
    /\ UNCHANGED serverVars
    /\ UNCHANGED historyVars
    /\ UNCHANGED candleVars
    /\ UNCHANGED callVars
    /\ UNCHANGED panelVars
    /\ UNCHANGED chartVars

\* An entry that counts every response as a trade, acknowledged or not.
entryAnswered(e, entry, outcome) ==
    [e EXCEPT !.entries = @ \ {entry},
              !.response = [kind |-> "entry", id |-> entry.id, outcome |-> outcome],
              !.positions = Append(@, [id |-> entry.id,
                                       symbol |-> entry.signal.symbol,
                                       side |-> entry.signal.action,
                                       quantity |-> entry.quantity,
                                       entryPrice |-> entry.signal.price,
                                       currentPrice |-> entry.signal.price,
                                       pnl |-> 0]),
              !.lastTradeTime[entry.signal.symbol] = e.now,
              !.performance.totalTrades = @ + 1]

\* executeTrade after its await: on success the position is recorded, the
\* time of the trade noted and the trades counted; a refusal and an
\* exception are only logged.
entryReturned(e, entry, outcome) ==
    IF outcome = "success"
    THEN [e EXCEPT !.entries = @ \ {entry},
                   !.response = [kind |-> "entry", id |-> entry.id, outcome |-> outcome],
                   !.positions = Append(@, [id |-> entry.id,
                                            symbol |-> entry.signal.symbol,
                                            side |-> entry.signal.action,
                                            quantity |-> entry.quantity,
                                            entryPrice |-> entry.signal.price,
                                            currentPrice |-> entry.signal.price,
                                            pnl |-> 0]),
                   !.lastTradeTime[entry.signal.symbol] = e.now,
                   !.performance.totalTrades = @ + 1]
    ELSE [e EXCEPT !.entries = @ \ {entry},
                   !.response = [kind |-> "entry", id |-> entry.id, outcome |-> outcome]]

RECURSIVE Gcd(_, _)
Gcd(a, b) == IF b = 0 THEN a ELSE Gcd(b, a % b)

\* The same number in lowest terms (for a non-negative numerator).
Lowest(n, d) == LET g == Gcd(n, d) IN Rat(n \div g, d \div g)

\* The winRate setPerformance computes in exitPosition:
\* (prev.winRate * prev.totalTrades [+ 1]) / (prev.totalTrades + 1) * 100.
winRateAfter(prev, finalPnL) ==
    LET times == prev.winRate.num * prev.totalTrades
        wins == IF finalPnL > 0 THEN times + prev.winRate.den ELSE times
    IN  Lowest(wins * 100, prev.winRate.den * (prev.totalTrades + 1))

\* exitPosition after its await.
exitReturned(e, exit, outcome) ==
    IF outcome = "success"
    THEN LET finalPnL == positionPnL(exit.position, exit.exitPrice)
         IN  [e EXCEPT !.exits = @ \ {exit},
                       !.response = [kind |-> "exit", id |-> exit.position.id,
                                     outcome |-> outcome],
                       !.positions = SelectSeq(@, LAMBDA p : p.id # exit.position.id),
                       !.performance.totalPnL = @ + finalPnL,
                       !.performance.winRate = winRateAfter(e.performance, finalPnL)]
    ELSE [e EXCEPT !.exits = @ \ {exit},
                   !.response = [kind |-> "exit", id |-> exit.position.id,
                                 outcome |-> outcome],
                   !.refused = Append(@, exit.position.id)]

\* What tradingService.placeOrder can come to: a response with success
\* true, one with success false, or an exception.
OrderOutcomes == {"success", "failure", "throws"}

\* tradingService.placeOrder settles for an entry order.
EntryReturned(entry, outcome) ==
    /\ entry \in engine.entries
    /\ engine' = entryReturned(engine, entry, outcome)
    /\ UNCHANGED serverVars
    /\ UNCHANGED historyVars
    /\ UNCHANGED candleVars
    /\ UNCHANGED callVars
    /\ UNCHANGED panelVars
    /\ UNCHANGED chartVars

\* tradingService.placeOrder settles for an exit order.
ExitReturned(exit, outcome) ==
    /\ exit \in engine.exits
    /\ engine' = exitReturned(engine, exit, outcome)
    /\ UNCHANGED serverVars
    /\ UNCHANGED historyVars
    /\ UNCHANGED candleVars
    /\ UNCHANGED callVars
    /\ UNCHANGED panelVars
    /\ UNCHANGED chartVars

\* The interval fires, TickSeconds after it was set or last fired.
IntervalTick(draws) ==
    /\ engine.interval.set
    /\ engine.budget.ticks > 0
    /\ LET e == [engine EXCEPT !.now = @ + TickSeconds, !.budget.ticks = @ - 1]
       IN  engine' = runTradingLoop(e, e.interval, draws)
    /\ UNCHANGED serverVars
    /\ UNCHANGED historyVars
    /\ UNCHANGED candleVars
    /\ UNCHANGED callVars
    /\ UNCHANGED panelVars
    /\ UNCHANGED chartVars

----------------------------------------------------------------------------
(* Auto trading system of the chart: strategies, handlers and orders       *)

\* The strategies the component starts with, as far as the trading logic
\* reads them.
chartStrategies ==
    <<[symbol |-> "BANKNIFTY", tradeType |-> "Both", takeProfit |-> 50,
       stopLoss |-> 30, useTrailing |-> TRUE, trailingStop |-> 20,
       maxTradesPerDay |-> 10, active |-> TRUE],
      [symbol |-> "NIFTY", tradeType |-> "Buy", takeProfit |-> 40,
       stopLoss |-> 25, useTrailing |-> FALSE, trailingStop |-> 0,
       maxTradesPerDay |-> 8, active |-> TRUE]>>

\* No entry for the symbol in currentPositionsRef.current, or null.
NoPosition == [type |-> "none"]

ChartMounted(ticks) ==
    [positions |-> [symbol \in {"BANKNIFTY", "NIFTY"} |-> NoPosition],
     tradesToday |-> [symbol \in {"BANKNIFTY", "NIFTY"} |-> 0],
     performance |-> [symbol \in {"BANKNIFTY", "NIFTY"} |-> [profit |-> 0, trades |-> 0]],
     pending |-> {},
     placed |-> 0,
     settled |-> [type |-> "none"],
     budget |-> ticks]

ChartInit == chart = ChartMounted(MaxChartTicks)

\* placeOrder up to its await: the order is handed to
\* tradingService.placeOrder.  `exit` notes that the handler placed it for an
\* open position.
submitOrder(c, strategy, type, price, exit) ==
    [c EXCEPT !.pending = @ \cup {[n |-> c.placed + 1, symbol |-> strategy.symbol,
                                   type |-> type, price |-> price, exit |-> exit]},
              !.placed = @ + 1]

\* The orders handleBankNiftyStrategy places: <<type, exit>> or none.
handleBankNiftyStrategy(strategy, price, maValue, currentPosition) ==
    IF currentPosition = NoPosition
    THEN IF price > maValue /\ strategy.tradeType \in {"Buy", "Both"}
         THEN <<[type |-> "BUY", exit |-> FALSE]>>
         ELSE IF price < maValue /\ strategy.tradeType \in {"Sell", "Both"}
         THEN <<[type |-> "SELL", exit |-> FALSE]>>
         ELSE <<>>
    ELSE LET isBuy == currentPosition.type = "BUY"
             profit == IF isBuy THEN price - currentPosition.entryPrice
                       ELSE currentPosition.entryPrice - price
             exitOrder == <<[type |-> IF isBuy THEN "SELL" ELSE "BUY", exit |-> TRUE]>>
         IN  IF profit >= strategy.takeProfit THEN exitOrder
             ELSE IF profit <= -strategy.stopLoss THEN exitOrder
             ELSE IF strategy.useTrailing
             THEN LET highestProfit == profit
                  IN  IF highestProfit - profit >= strategy.trailingStop
                      THEN exitOrder ELSE <<>>
             ELSE <<>>

\* The orders handleNiftyStrategy places.
handleNiftyStrategy(strategy, price, maValue, rsi, currentPosition) ==
    IF currentPosition = NoPosition
    THEN IF price > maValue /\ rsi < 70 /\ strategy.tradeType = "Buy"
         THEN <<[type |-> "BUY", exit |-> FALSE]>>
         ELSE <<>>
    ELSE LET profit == price - currentPosition.entryPrice
         IN  IF profit >= strategy.takeProfit \/ rsi > 70
             THEN <<[type |-> "SELL", exit |-> TRUE]>>
             ELSE IF profit <= -strategy.stopLoss
             THEN <<[type |-> "SELL", exit |-> TRUE]>>
             ELSE <<>>

\* One strategy in the forEach of the trading interval (enough candles and a
\* time before endTime).
processStrategy(c, strategy, draw) ==
    IF c.tradesToday[strategy.symbol] >= strategy.maxTradesPerDay THEN c
    ELSE LET currentPosition == c.positions[strategy.symbol]
             toPlace == IF strategy.symbol = "BANKNIFTY"
                       THEN handleBankNiftyStrategy(strategy, draw.price, draw.maValue,
                                                    currentPosition)
                       ELSE IF strategy.symbol = "NIFTY"
                       THEN handleNiftyStrategy(strategy, draw.price, draw.maValue,
                                                draw.rsi, currentPosition)
                       ELSE <<>>
         IN  IF toPlace = <<>> THEN c
             ELSE submitOrder(c, strategy, toPlace[1].type, draw.price, toPlace[1].exit)

RECURSIVE processStrategies(_, _, _)
processStrategies(c, strats, draws) ==
    IF strats = <<>> THEN c
    ELSE processStrategies(
            IF Head(strats).active
            THEN processStrategy(c, Head(strats), draws[Head(strats).symbol])
            ELSE c,
            Tail(strats), draws)

\* placeOrder after its await: the response is not inspected; unless the
\* call threw, the position of the symbol is set from the order's type
\* (always 'BUY' or 'SELL', so the branch for exit trades is never taken)
\* and the trades of the day are counted.
placeOrderSettled(c, order, outcome) ==
    IF outcome = "throws"
    THEN [c EXCEPT !.pending = @ \ {order},
                   !.settled = [type |-> order.type, n |-> order.n, symbol |-> order.symbol,
                                exit |-> order.exit, outcome |-> outcome]]
    ELSE [c EXCEPT !.pending = @ \ {order},
                   !.settled = [type |-> order.type, n |-> order.n, symbol |-> order.symbol,
                                exit |-> order.exit, outcome |-> outcome],
                   !.positions[order.symbol] =
                       IF order.type \in {"BUY", "SELL"}
                       THEN [type |-> order.type, entryPrice |-> order.price]
                       ELSE NoPosition,
                   !.tradesToday[order.symbol] = @ + 1]

\* What the candles of one tick come to for the two symbols: the latest
\* close, the moving average and (for NIFTY) the RSI.
ChartDraws ==
    {[symbol \in {"BANKNIFTY", "NIFTY"} |->
         IF symbol = "BANKNIFTY" THEN [price |-> b, maValue |-> 1000, rsi |-> 50]
         ELSE [price |-> n[1], maValue |-> 1000, rsi |-> n[2]]] :
     b \in {970, 1000, 1010, 1060}, n \in {<<990, 50>>, <<1010, 50>>, <<1050, 50>>, <<1010, 80>>}}

\* The trading interval fires.
TradingTick(draws) ==
    /\ chart.budget > 0
    /\ chart' = processStrategies([chart EXCEPT !.budget = @ - 1], chartStrategies, draws)
    /\ UNCHANGED serverVars
    /\ UNCHANGED historyVars
    /\ UNCHANGED candleVars
    /\ UNCHANGED callVars
    /\ UNCHANGED panelVars
    /\ UNCHANGED engineVars

\* tradingService.placeOrder settles for an order of the chart.
ChartOrderSettled(order, outcome) ==
    /\ order \in chart.pending
    /\ chart' = placeOrderSettled(chart, order, outcome)
    /\ UNCHANGED serverVars
    /\ UNCHANGED historyVars
    /\ UNCHANGED candleVars
    /\ UNCHANGED callVars
    /\ UNCHANGED panelVars
    /\ UNCHANGED engineVars

----------------------------------------------------------------------------
(* Direct use of the price history                                         *)

HistorySymbol == "BANKNIFTY.NS"

OtherSymbol == "TCS.NS"

Pushes(symbol) == IF symbol \in DOMAIN pushed THEN Len(pushed[symbol]) ELSE 0

\* Prices the feed may deliver for the next addToHistory call: a fixed
\* pattern while the buffer is far from its cap, any price near the cap.
FeedPrices(symbol) ==
    IF symbol = HistorySymbol /\ Pushes(symbol) < HistoryCap - HistFree
    THEN {(Pushes(symbol) % 5) + 1}
    ELSE Prices

AddToHistoryCall(symbol, price) ==
    /\ Pushes(symbol) < (IF symbol = HistorySymbol THEN HistoryCap + HistExtra
                                                    ELSE OtherPushes)
    /\ priceHistory' = addToHistory(priceHistory, symbol, price)
    /\ pushed' = Record(pushed, symbol, price)
    /\ UNCHANGED serverVars
    /\ UNCHANGED candleVars
    /\ UNCHANGED panelVars
    /\ UNCHANGED engineVars
    /\ UNCHANGED chartVars
    /\ UNCHANGED callVars

----------------------------------------------------------------------------
(* Initial states and specifications                                       *)

EmptyMap == [x \in {} |-> 0]

CandleInit ==
    /\ candles = <<>>
    /\ appended = <<>>
    /\ candleClock = 0
    /\ ticksInOrder = TRUE
    /\ tickCount = 0

\* No evaluation function has been called directly.
CallInit == evaluated = [fn |-> "none"]

\* The trading panel before its mount effect has run.
PanelInit ==
    panel = [authStatus |-> NoAuthStatus, mounting |-> TRUE, pending |-> 0,
             placed |-> 0, refused |-> 0]

FullBudget == [cycles |-> MaxCycles, requests |-> MaxRequests]

\* The state after the module is loaded.
Constructed ==
    /\ strategies = defaultStrategies
    /\ systemStatus = [status |-> "stopped", autoTradingEnabled |-> FALSE, logs |-> <<>>]
    /\ marketDataCache = EmptyMap
    /\ priceHistory = EmptyMap
    /\ pushed = EmptyMap
    /\ cycles = <<>>
    /\ orders = EmptyMap
    /\ timers = {}
    /\ riskJobs = {}
    /\ cyclesStarted = 0
    /\ lastCommand = "none"
    /\ logClock = 0
    /\ budget = FullBudget
    /\ CandleInit
    /\ CallInit
    /\ PanelInit
    /\ EngineInit
    /\ ChartInit

\* Quotes of the warm-up cycles: one short of what evaluateStrategy needs.
WarmCycles == MinHistory - 1

Falling == [i \in 1..WarmCycles |-> 40 - i]

Rising == [i \in 1..WarmCycles |-> 20 + i]

Flat == [i \in 1..WarmCycles |-> 2]

Swinging == [i \in 1..WarmCycles |-> IF i % 2 = 1 THEN 1 ELSE 3]

WarmFeeds == {<<Falling, Swinging>>, <<Rising, Flat>>}

\* The state after the two updatable strategies were enabled, auto trading was
\* started and WarmCycles cycles ran over the given quotes without a signal
\* (evaluateStrategy returns null below MinHistory samples).
Warmed(feed) ==
    LET hist == [sym \in {HistorySymbol, OtherSymbol} |->
                    IF sym = HistorySymbol THEN feed[1] ELSE feed[2]]
    IN  /\ strategies = [id \in DOMAIN defaultStrategies |->
                            [defaultStrategies[id] EXCEPT !.enabled = (id \in UpdatableIds)]]
        /\ systemStatus = [status |-> "running", autoTradingEnabled |-> TRUE,
                           logs |-> <<1, 2, 3>>]
        /\ marketDataCache = [sym \in DOMAIN hist |-> Last(hist[sym])]
        /\ priceHistory = hist
        /\ pushed = hist
        /\ cycles = <<>>
        /\ orders = EmptyMap
        /\ timers = {}
        /\ riskJobs = {}
        /\ cyclesStarted = WarmCycles
        /\ lastCommand = "enable"
        /\ logClock = 3
        /\ budget = FullBudget
        /\ CandleInit
        /\ CallInit
        /\ PanelInit
        /\ EngineInit
        /\ ChartInit

\* The warmed state with one scheduled cycle to come and no request.
WarmedForPanel(feed) ==
    LET hist == [sym \in {HistorySymbol, OtherSymbol} |->
                    IF sym = HistorySymbol THEN feed[1] ELSE feed[2]]
    IN  /\ strategies = [id \in DOMAIN defaultStrategies |->
                            [defaultStrategies[id] EXCEPT !.enabled = (id \in UpdatableIds)]]
        /\ systemStatus = [status |-> "running", autoTradingEnabled |-> TRUE,
                           logs |-> <<1, 2, 3>>]
        /\ marketDataCache = [sym \in DOMAIN hist |-> Last(hist[sym])]
        /\ priceHistory = hist
        /\ pushed = hist
        /\ cycles = <<>>
        /\ orders = EmptyMap
        /\ timers = {}
        /\ riskJobs = {}
        /\ cyclesStarted = WarmCycles
        /\ lastCommand = "enable"
        /\ logClock = 3
        /\ budget = [cycles |-> 1, requests |-> 0]
        /\ CandleInit
        /\ CallInit
        /\ PanelInit
        /\ EngineInit
        /\ ChartInit

Init == Constructed \/ \E feed \in WarmFeeds : Warmed(feed)

Next ==
    \/ CronEveryMinute
    \/ CronEvery30Seconds
    \/ \E i \in 1..MaxInFlight : FetchFailed(i)
    \/ \E i \in 1..MaxInFlight, price \in QuotePrices : FetchReturned(i, price)
    \/ \E i \in 1..MaxInFlight, outcome \in Outcomes : OrderReturned(i, outcome)
    \/ \E i \in 1..MaxInFlight : CycleReturned(i)
    \/ \E t \in timers : TimerFired(t)
    \/ \E job \in riskJobs, outcome \in Outcomes : RiskOrderReturned(job, outcome)
    \/ \E id \in UpdatableIds \cup {"unknown_1"} :
          \E updates \in UpdatesFor(id) : PutStrategy(id, updates)
    \/ \E enabled \in BOOLEAN : PostAutoTrading(enabled)

Spec == Init /\ [][Next]_vars

\* The loop under requests that set a strategy's parameters to null.
FaultNext ==
    \/ CronEveryMinute
    \/ CronEvery30Seconds
    \/ \E i \in 1..MaxInFlight : FetchFailed(i)
    \/ \E i \in 1..MaxInFlight, price \in QuotePrices : FetchReturned(i, price)
    \/ \E i \in 1..MaxInFlight, outcome \in Outcomes : OrderReturned(i, outcome)
    \/ \E i \in 1..MaxInFlight : CycleReturned(i)
    \/ \E t \in timers : TimerFired(t)
    \/ \E job \in riskJobs, outcome \in Outcomes : RiskOrderReturned(job, outcome)
    \/ \E id \in UpdatableIds : PutMalformed(id)

FaultSpec == (\E feed \in WarmFeeds : Warmed(feed)) /\ [][FaultNext]_vars

\* The state after the module is loaded, with LogRequests commands to come
\* and no scheduled cycle.
ConstructedForCommands ==
    /\ strategies = defaultStrategies
    /\ systemStatus = [status |-> "stopped", autoTradingEnabled |-> FALSE, logs |-> <<>>]
    /\ marketDataCache = EmptyMap
    /\ priceHistory = EmptyMap
    /\ pushed = EmptyMap
    /\ cycles = <<>>
    /\ orders = EmptyMap
    /\ timers = {}
    /\ riskJobs = {}
    /\ cyclesStarted = 0
    /\ lastCommand = "none"
    /\ logClock = 0
    /\ budget = [cycles |-> 0, requests |-> LogRequests]
    /\ CandleInit
    /\ CallInit
    /\ PanelInit
    /\ EngineInit
    /\ ChartInit

\* The status object under start/stop commands alone.
LogNext == \E enabled \in BOOLEAN : PostAutoTrading(enabled)

LogSpec == ConstructedForCommands /\ [][LogNext]_vars

\* The trading panel next to one scheduled cycle of the server.
PanelNext ==
    \/ \E outcome \in AuthOutcomes : CheckAuthStatusReturned(outcome)
    \/ \E outcome \in AuthOutcomes : ValidateUserToken(outcome)
    \/ HandleSubmit
    \/ \E outcome \in AuthOutcomes : PlaceOrderReturned(outcome)
    \/ HandleLoginRedirect
    \/ CronEveryMinute
    \/ CronEvery30Seconds
    \/ \E i \in 1..MaxInFlight : FetchFailed(i)
    \/ \E i \in 1..MaxInFlight, price \in QuotePrices : FetchReturned(i, price)
    \/ \E i \in 1..MaxInFlight, outcome \in Outcomes : OrderReturned(i, outcome)
    \/ \E i \in 1..MaxInFlight : CycleReturned(i)
    \/ \E t \in timers : TimerFired(t)
    \/ \E job \in riskJobs, outcome \in Outcomes : RiskOrderReturned(job, outcome)

PanelSpec == (\E feed \in WarmFeeds : WarmedForPanel(feed)) /\ [][PanelNext]_vars

\* The registry under update requests alone.
RegistryNext ==
    \E id \in DOMAIN defaultStrategies \cup {"unknown_1"} :
        \E updates \in PartialUpdatesFor(id) : PutStrategy(id, updates)

RegistrySpec == Constructed /\ [][RegistryNext]_vars

EvalNext ==
    \/ \E id \in DOMAIN strategies :
          \E parameters \in ParameterChoices(id), kind \in SeriesKinds :
              \E n \in SampleCounts(id, parameters) :
                  EvaluateStrategyCall(id, parameters, Series(kind, n))
    \/ \E n \in 0..MaxEmaLen, periods \in EmaPeriods :
          \E prices \in PriceSeqs(n) : EvaluateEMACrossoverCall(prices, periods)

EvalSpec == Constructed /\ [][EvalNext]_vars

LiveNext ==
    \/ \E position \in OpenPositions, move \in -MaxMove..MaxMove :
          CheckExitConditionsCall(position, EntryPrice + move * MoveStep)
    \/ \E symbol \in LiveSymbols, currentPrice \in {1, 3, 5} :
          \E indicators \in IndicatorChoices :
              GenerateSignalCall(symbol, currentPrice, indicators)

LiveSpec == Constructed /\ [][LiveNext]_vars

\* Indicator snapshots and the signals generated from them.
IndicatorNext ==
    \/ \E symbol \in LiveSymbols, currentPrice \in {1, 3, 5} :
          \E known \in KnownIndicators, ema12 \in MacdEmas, ema26 \in MacdEmas :
              CalculateIndicatorsCall(symbol, currentPrice, known, ema12, ema26)
    \/ \E symbol \in LiveSymbols, currentPrice \in {1, 3, 5} :
          CalculateIndicatorsShortCall(symbol, currentPrice)

IndicatorSpec == Constructed /\ [][IndicatorNext]_vars

\* The auto trading system of the chart.
ChartNext ==
    \/ \E draws \in ChartDraws : TradingTick(draws)
    \/ \E order \in chart.pending, outcome \in {"returns", "throws"} :
          ChartOrderSettled(order, outcome)

ChartSpec == Constructed /\ [][ChartNext]_vars

\* The engine as the component runs it.
EngineNext ==
    \/ StartTrading
    \/ StopTrading
    \/ \E draws \in Draws : IntervalTick(draws)

EngineSpec == Constructed /\ [][EngineNext]_vars

\* The seconds between two calls of the loop: one period of the interval,
\* or the time executeTrade lets pass between trades.
Elapsed == {TickSeconds, MinTradeGap}

\* The engine with the loop of the current render called directly.
LoopNext ==
    \/ StartTrading
    \/ \E draws \in Draws, elapsed \in Elapsed : RunTradingLoopCall(draws, elapsed)
    \/ \E entry \in engine.entries, outcome \in OrderOutcomes : EntryReturned(entry, outcome)
    \/ \E exit \in engine.exits, outcome \in OrderOutcomes : ExitReturned(exit, outcome)

LoopSpec == Constructed /\ [][LoopNext]_vars

HistoryNext ==
    \E symbol \in {HistorySymbol, OtherSymbol} :
        \E price \in FeedPrices(symbol) : AddToHistoryCall(symbol, price)

HistorySpec == Constructed /\ [][HistoryNext]_vars

CandleNext ==
    \/ \E tick \in TickChoices : AddOrUpdateCandleCall(tick[2], tick[1])
    \/ \E tick \in TickChoices : UpdateCandlesCall(tick[2], tick[1])

CandleSpec == Constructed /\ [][CandleNext]_vars

----------------------------------------------------------------------------
(* Properties of the scheduled auto-trading loop                           *)

ParentOrderOf(c, id) == OrderId(c.n, id, "parent")

EvalsOf(c, id) == {k \in 1..Len(c.evals) : c.evals[k].id = id}

SentFor(c, id) == Cardinality({k \in 1..Len(c.sent) : c.sent[k] = id})

Actionable(signal) ==
    /\ signal.action \in {"BUY", "SELL"}
    /\ RatGE(signal.confidence, Rat(70, 1))

\* C1: in every cycle, a parent order exists for a strategy only if the
\* strategy was enabled when the cycle started, its quote was fetched and its
\* evaluated signal is BUY or SELL with confidence >= 70; when these hold
\* exactly one parent order was sent for it, with transaction_type = the
\* signal's action and quantity = strategy.parameters.quantity.
C1_ParentOrderIffGatedSignal ==
    \A i \in 1..Len(cycles) :
        LET c == cycles[i]
        IN  \A id \in DOMAIN strategies :
                /\ Cardinality(EvalsOf(c, id)) <= 1
                /\ SentFor(c, id) <= 1
                /\ (SentFor(c, id) = 1) = (ParentOrderOf(c, id) \in DOMAIN orders)
                /\ ParentOrderOf(c, id) \in DOMAIN orders =>
                      /\ id \in c.startEnabled
                      /\ id \in c.fetched
                      /\ \E k \in EvalsOf(c, id) :
                            /\ Actionable(c.evals[k].signal)
                            /\ orders[ParentOrderOf(c, id)].kind = "parent"
                            /\ orders[ParentOrderOf(c, id)].transaction_type
                                  = c.evals[k].signal.action
                            /\ orders[ParentOrderOf(c, id)].quantity = c.evals[k].quantity
                /\ \A k \in EvalsOf(c, id) :
                      (id \in c.startEnabled /\ id \in c.fetched
                          /\ Actionable(c.evals[k].signal))
                        => SentFor(c, id) = 1

\* A cycle that sent a parent order with an edited quantity for one strategy
\* and evaluated another strategy to a signal below the gate.
C1_Witness ==
    \E i \in 1..Len(cycles) :
        LET c == cycles[i]
        IN  /\ \E id \in DOMAIN strategies :
                  /\ ParentOrderOf(c, id) \in DOMAIN orders
                  /\ orders[ParentOrderOf(c, id)].quantity \in Quantities
                  /\ orders[ParentOrderOf(c, id)].transaction_type = "SELL"
            /\ \E k \in 1..Len(c.evals) :
                  /\ c.evals[k].signal.action = "SELL"
                  /\ ~Actionable(c.evals[k].signal)

\* C2: a failed fetch skips its strategy (no history append, no evaluation,
\* no order) and the cycle goes on: when the cycle is over every strategy it
\* picked was either skipped or fetched and evaluated.
C2_SkipInv ==
    \A i \in 1..Len(cycles) :
        LET c == cycles[i]
        IN  /\ c.skipped \cap c.fetched = {}
            /\ \A id \in c.skipped :
                  /\ EvalsOf(c, id) = {}
                  /\ ParentOrderOf(c, id) \notin DOMAIN orders
            /\ c.pc = "done" =>
                  \A k \in 1..Len(c.active) :
                      \/ c.active[k] \in c.skipped
                      \/ c.active[k] \in c.fetched /\ EvalsOf(c, c.active[k]) # {}

C2_SkipStep ==
    \A i \in 1..Len(cycles) :
        (/\ i <= Len(cycles')
         /\ cycles'[i].n = cycles[i].n
         /\ cycles'[i].skipped # cycles[i].skipped)
        => /\ priceHistory' = priceHistory
           /\ marketDataCache' = marketDataCache
           /\ orders' = orders
           /\ strategies' = strategies
           /\ cycles'[i].evals = cycles[i].evals

C2_FetchFailureIsolated == []C2_SkipInv /\ [][C2_SkipStep]_vars

\* A finished cycle in which one strategy was skipped and a later one sent
\* its parent order.
C2_Witness ==
    \E i \in 1..Len(cycles) :
        LET c == cycles[i]
        IN  /\ c.pc = "done"
            /\ \E a, b \in 1..Len(c.active) :
                  /\ a < b
                  /\ c.active[a] \in c.skipped
                  /\ ParentOrderOf(c, c.active[b]) \in DOMAIN orders

IsChild(o) == o.kind \in {"sl", "tp"}

Acknowledged(orderId) ==
    /\ orderId \in DOMAIN orders
    /\ orders[orderId].kind = "parent"
    /\ orders[orderId].status = "ok"

\* C3: a stop-loss or take-profit order, a running
\* scheduleStopLossAndTakeProfit and a pending timer for it exist only for a
\* parent order whose placement has returned with success.
C3_ChildAfterParentAck ==
    /\ \A k \in DOMAIN orders : IsChild(orders[k]) => Acknowledged(orders[k].parent)
    /\ \A t \in timers : Acknowledged(t.parentOrderId)
    /\ \A job \in riskJobs : Acknowledged(job.parentOrderId)

\* Both child orders of an acknowledged parent are in the book while another
\* parent order has failed and has none.
C3_Witness ==
    /\ \E k \in DOMAIN orders : orders[k].kind = "tp"
    /\ \E k \in DOMAIN orders : orders[k].kind = "parent" /\ orders[k].status = "failed"

----------------------------------------------------------------------------
(* Properties of the price history and of the candle list                  *)

\* The most recent n elements of a sequence, in their order.
MostRecent(s, n) ==
    [i \in 1..(IF Len(s) < n THEN Len(s) ELSE n) |->
        s[i + (IF Len(s) < n THEN 0 ELSE Len(s) - n)]]

\* C4: after n addToHistory calls for a symbol its history holds exactly
\* min(n, 200) prices, the most recent ones in arrival order; a symbol never
\* pushed has no history, so calls for one symbol leave the others alone.
C4_HistoryKeepsLastCap ==
    /\ DOMAIN priceHistory = DOMAIN pushed
    /\ \A symbol \in DOMAIN pushed :
          /\ Len(priceHistory[symbol]) = Min(Len(pushed[symbol]), 200)
          /\ priceHistory[symbol] = MostRecent(pushed[symbol], 200)

\* More than 200 prices were pushed for one symbol, some of them differing,
\* and the other symbol has a history of its own.
C4_Witness ==
    /\ Pushes(HistorySymbol) > 200
    /\ Pushes(OtherSymbol) > 0
    /\ priceHistory[HistorySymbol][200] # priceHistory[HistorySymbol][199]

\* C5: the candle list never holds more than 60 candles; it holds
\* min(appended, 60) candles, which are the most recently appended ones in
\* order (oldest discarded first, newest last).
C5_CandleListKeepsLastCap ==
    /\ Len(candles) <= 60
    /\ Len(candles) = Min(Len(appended), 60)
    /\ \A i \in 1..Len(candles) : candles[i].time = MostRecent(appended, 60)[i]

\* More than 60 candles were appended.
C5_Witness == Len(appended) > 60 /\ Len(candles) = 60

\* C6: every candle has high >= max(open, close) and low <= min(open, close).
C6_CandleHighLow ==
    \A i \in 1..Len(candles) :
        /\ candles[i].high >= candles[i].open
        /\ candles[i].high >= candles[i].close
        /\ candles[i].low <= candles[i].open
        /\ candles[i].low <= candles[i].close

\* A candle that opened low, went up and closed low again: its high is above
\* both its open and its close.
C6_Witness ==
    \E i \in 1..Len(candles) :
        /\ candles[i].high > candles[i].close
        /\ candles[i].high > candles[i].open
        /\ candles[i].low < candles[i].high

NonDecreasingTimes ==
    \A i \in 1..(Len(candles) - 1) : candles[i].time <= candles[i + 1].time

\* C7 as stated: whatever the order of the tick timestamps, the candle list
\* is non-decreasing in candle time.
C7_AnyOrderMonotone == NonDecreasingTimes

\* C7 amended: as long as every tick is at least as recent as the tick
\* before it, the candle list is non-decreasing in candle time.
C7_InOrderMonotone == ticksInOrder => NonDecreasingTimes

\* Ticks in order, some of them updating the last candle, the list full.
C7_Witness ==
    /\ ticksInOrder
    /\ Len(candles) = 60
    /\ tickCount > Len(appended)

----------------------------------------------------------------------------
(* Properties of the system status                                         *)

C8_CycleStartStep ==
    cyclesStarted' # cyclesStarted =>
        /\ systemStatus.autoTradingEnabled
        /\ lastCommand = "enable"

C8_CommandStep ==
    lastCommand' # lastCommand =>
        /\ cycles' = cycles
        /\ orders' = orders
        /\ timers' = timers
        /\ riskJobs' = riskJobs

C8_NoCancelStep ==
    \A i \in 1..Len(cycles) :
        (\A j \in 1..Len(cycles') : cycles'[j].n # cycles[i].n) => cycles[i].pc = "done"

\* C8: a cycle starts only while the last command was an enable (and the
\* flag is set); a command leaves the cycles in flight, the order book and
\* the pending risk orders as they are; and a cycle in flight leaves only by
\* returning after its loop is over, never by being cancelled.
C8_DisableStopsNewCycles ==
    [][C8_CycleStartStep /\ C8_CommandStep /\ C8_NoCancelStep]_vars

\* Auto trading is disabled, a cycle that was in flight at the disable went
\* on after it, sent a parent order and reached its end, and no further cycle
\* has started although the schedule still has invocations to make.
C8_Witness ==
    /\ lastCommand = "disable"
    /\ ~systemStatus.autoTradingEnabled
    /\ budget.cycles > 0
    /\ \E i \in 1..Len(cycles) :
          /\ cycles[i].pc = "done"
          /\ cycles[i].ranDisabled
          /\ cycles[i].sent # <<>>

C9_StatusInv ==
    /\ systemStatus.status \in {"stopped", "running"}
    /\ (systemStatus.status = "running") = (systemStatus.autoTradingEnabled = TRUE)
    /\ lastCommand = "none" => systemStatus.status = "stopped"

C9_StatusStep ==
    systemStatus'.status # systemStatus.status =>
        /\ lastCommand' # lastCommand
        /\ \/ systemStatus'.status = "running" /\ lastCommand' = "enable"
           \/ systemStatus'.status = "stopped" /\ lastCommand' = "disable"

\* C9: the status is stopped or running, stopped before the first command,
\* running exactly when autoTradingEnabled is true, and it changes only by a
\* command: to running by an enable, to stopped by a disable.
C9_StatusFollowsCommands == []C9_StatusInv /\ [][C9_StatusStep]_vars

\* The system is running after a parent order failed and a fetch was skipped.
C9_Witness ==
    /\ systemStatus.status = "running"
    /\ \E k \in DOMAIN orders : orders[k].status = "failed"
    /\ \E i \in 1..Len(cycles) : cycles[i].skipped # {}

SuccessfulParents(id) ==
    {k \in DOMAIN orders : /\ orders[k].kind = "parent"
                           /\ orders[k].strategy = id
                           /\ orders[k].status = "ok"}

----------------------------------------------------------------------------
(* Properties of failure handling in the loop                              *)

C11_FailureInv ==
    \A i \in 1..Len(cycles) :
        LET c == cycles[i]
        IN  /\ c.pc \in {"fetch", "order", "done"}
            /\ \A id \in c.failed :
                  /\ id \in c.fetched
                  /\ SentFor(c, id) <= 1
                  /\ c.pc = "order" => c.active[c.idx] # id
            /\ c.pc = "done" =>
                  \A k \in 1..Len(c.active) : c.active[k] \in c.skipped \cup c.fetched

C11_FailureStep ==
    \A i \in 1..Len(cycles) :
        (/\ i <= Len(cycles')
         /\ cycles'[i].n = cycles[i].n
         /\ cycles'[i].failed # cycles[i].failed)
        => /\ Len(systemStatus'.logs) = Len(systemStatus.logs) + 1
           /\ DOMAIN orders' = DOMAIN orders
           /\ \A id \in DOMAIN strategies :
                 strategies'[id].performance = strategies[id].performance
           /\ cycles'[i].idx = cycles[i].idx + 1
           /\ cycles'[i].sent = cycles[i].sent

\* C11: a strategy whose processing failed in a cycle (its parent order was
\* rejected, its placement threw, or its evaluation threw on null parameters)
\* got one log entry and no further order in that cycle, the step that failed
\* changed no performance figure, and the cycle went on: when it is over,
\* every strategy it picked was fetched or skipped.
C11_FailureDegradesToLog == []C11_FailureInv /\ [][C11_FailureStep]_vars

\* A finished cycle whose first strategy threw in evaluation and whose second
\* strategy had its parent order fail.
C11_Witness ==
    \E i \in 1..Len(cycles) :
        LET c == cycles[i]
        IN  /\ c.pc = "done"
            /\ \E a, b \in 1..Len(c.active) :
                  /\ a < b
                  /\ c.active[a] \in c.failed
                  /\ EvalsOf(c, c.active[a]) = {}
                  /\ c.active[b] \in c.failed
                  /\ ParentOrderOf(c, c.active[b]) \in DOMAIN orders
                  /\ orders[ParentOrderOf(c, c.active[b])].status = "failed"

----------------------------------------------------------------------------
(* Properties of the evaluation functions                                  *)

\* C12: an evaluation with fewer than 20 samples, or with fewer samples than
\* the lookback of the strategy's type, does not throw and gives no signal
\* (null from evaluateStrategy, so nothing passes the gate and no order is
\* sent); below the lookback the type's function returns HOLD with
\* confidence 0.
C12_HoldOnInsufficientData ==
    evaluated.fn = "evaluateStrategy" =>
        LET n == Len(evaluated.prices)
            strategy == evaluated.strategy
        IN  /\ n < 20 =>
                  /\ ~evaluated.threw
                  /\ evaluated.signal = null
                  /\ ~evaluated.gated
            /\ (~IsNull(strategy.parameters) /\ n < Lookback(strategy)) =>
                  /\ ~evaluated.threw
                  /\ evaluated.byType = [action |-> "HOLD", confidence |-> Rat(0, 1)]
                  /\ evaluated.signal = null
                  /\ ~evaluated.gated

\* 19 falling samples given to the RSI strategy: its type's function alone
\* would signal BUY, the evaluation gives none.
C12_Witness ==
    /\ evaluated.fn = "evaluateStrategy"
    /\ Len(evaluated.prices) = 19
    /\ evaluated.strategy.type = "rsi_oversold"
    /\ evaluated.byType.action = "BUY"
    /\ evaluated.signal = null

\* The fast and the slow EMA at the index before the last one are defined and
\* exactly equal.
EqualBefore(prices, parameters) ==
    LET fastEMA == calculateEMA(prices, parameters.fastPeriod)
        slowEMA == calculateEMA(prices, parameters.slowPeriod)
    IN  /\ Len(prices) >= 2
        /\ Len(prices) >= parameters.slowPeriod
        /\ RatLE(fastEMA[Len(fastEMA) - 1], slowEMA[Len(slowEMA) - 1])
        /\ RatGE(fastEMA[Len(fastEMA) - 1], slowEMA[Len(slowEMA) - 1])

\* C13: when the fast and the slow EMA are exactly equal at the previous
\* index, evaluateEMACrossover returns neither BUY nor SELL.
C13_EqualBeforeNoSignal ==
    (/\ evaluated.fn = "evaluateEMACrossover"
     /\ EqualBefore(evaluated.prices, evaluated.parameters))
    => evaluated.signal.action \notin {"BUY", "SELL"}

----------------------------------------------------------------------------
(* Properties of the live trading engine                                   *)

\* C14: checkExitConditions submits an exit order exactly when the PnL of the
\* position at the current price is <= -stopLoss or >= takeProfit, the
\* boundary included; it submits one order, whose transaction_type is the
\* opposite of the position's side and whose quantity is the position's.
C14_ExitAtStopOrTarget ==
    evaluated.fn = "checkExitConditions" =>
        LET position == evaluated.position
            strategy == liveStrategies[position.symbol]
            move == evaluated.currentPrice - position.entryPrice
            pnl == IF position.side = "BUY" THEN move * position.quantity
                   ELSE -move * position.quantity
            due == pnl <= -100 * strategy.stopLoss \/ pnl >= 100 * strategy.takeProfit
        IN  /\ due = (evaluated.submitted # <<>>)
            /\ due =>
                  /\ Len(evaluated.submitted) = 1
                  /\ evaluated.submitted[1].transaction_type # position.side
                  /\ evaluated.submitted[1].transaction_type \in {"BUY", "SELL"}
                  /\ evaluated.submitted[1].quantity = position.quantity

\* A SELL position of NIFTY (quantity 25, stopLoss 30) checked at a price 1.20
\* above its entry: the PnL is exactly -30 and a BUY exit order is submitted.
C14_Witness ==
    /\ evaluated.fn = "checkExitConditions"
    /\ evaluated.position.symbol = "NIFTY"
    /\ evaluated.position.side = "SELL"
    /\ evaluated.currentPrice - evaluated.position.entryPrice = 120
    /\ Len(evaluated.submitted) = 1
    /\ evaluated.submitted[1].transaction_type = "BUY"

----------------------------------------------------------------------------
(* Properties of the strategy registry                                     *)

RequestIds == DOMAIN defaultStrategies \cup {"unknown_1"}

\* The top-level fields of the strategy that the update does not name are
\* kept, the others take the update's value, and no other strategy changes.
MergesTopLevel(id, updates) ==
    /\ \A f \in DOMAIN strategies[id] \ DOMAIN updates :
          /\ f \in DOMAIN strategies'[id]
          /\ strategies'[id][f] = strategies[id][f]
    /\ \A f \in DOMAIN updates : strategies'[id][f] = updates[f]
    /\ \A other \in DOMAIN strategies \ {id} : strategies'[other] = strategies[other]
    /\ DOMAIN strategies' = DOMAIN strategies

\* The entries of parameters and performance that the update does not name
\* are kept.
MergesEntries(id, updates) ==
    \A f \in {"parameters", "performance"} \cap DOMAIN updates :
        \A k \in DOMAIN strategies[id][f] \ DOMAIN updates[f] :
            /\ k \in DOMAIN strategies'[id][f]
            /\ strategies'[id][f][k] = strategies[id][f][k]

C15_TopLevelStep ==
    \A id \in RequestIds : \A updates \in PartialUpdatesFor(id) :
        PutStrategy(id, updates) =>
            IF id \in DOMAIN strategies
            THEN MergesTopLevel(id, updates)
            ELSE strategies' = strategies

C15_DeepStep ==
    \A id \in RequestIds : \A updates \in PartialUpdatesFor(id) :
        PutStrategy(id, updates) =>
            IF id \in DOMAIN strategies
            THEN MergesTopLevel(id, updates) /\ MergesEntries(id, updates)
            ELSE strategies' = strategies

\* C15 (as stated): an update of a strategy by id keeps every field the update
\* does not name, the individual entries of parameters and performance
\* included; the other strategies are unchanged; an update for an unknown id
\* leaves the registry unchanged.
C15_PartialUpdateMergesDeep == [][C15_DeepStep]_vars

\* C15 (amended): an update of a strategy by id keeps every top-level field
\* the update does not name and replaces each field it names, parameters and
\* performance as whole objects; the other strategies are unchanged; an
\* update for an unknown id leaves the registry unchanged.
C15_PartialUpdateMergesTopLevel == [][C15_TopLevelStep]_vars

\* A strategy was enabled by one request and given a quantity-only
\* parameters object by another: it is still enabled and has lost its
\* stopLoss.
C15_Witness ==
    \E id \in DOMAIN strategies :
        /\ strategies[id].enabled
        /\ DOMAIN strategies[id].parameters = {"quantity"}
        /\ strategies[id].performance = defaultStrategies[id].performance
        /\ \A other \in DOMAIN strategies \ {id} :
              strategies[other] = defaultStrategies[other]

----------------------------------------------------------------------------
(* Properties of the system log                                            *)

\* C16: systemStatus.logs never holds more than 200 entries (the larger of
\* the two caps; the server's trim is at LogTrim entries).
C16_LogsBounded == Len(systemStatus.logs) <= 200

----------------------------------------------------------------------------
(* Properties of overlapping cycles                                        *)

\* The symbol a cycle is awaiting a fetch or an order for.
SymbolInFlight(c) == strategies[c.active[c.idx]].symbol

\* C17: no two invocations of executeAutoTrading that are awaiting a fetch or
\* an order work on the same symbol.
C17_OneCyclePerSymbol ==
    \A i, j \in 1..Len(cycles) :
        (i < j /\ cycles[i].pc # "done" /\ cycles[j].pc # "done")
            => SymbolInFlight(cycles[i]) # SymbolInFlight(cycles[j])

----------------------------------------------------------------------------
(* Properties of session expiry                                            *)

\* No order leaves for the gateway in this step: neither from the order
\* form nor from the server's placeOrderDirect.
NoOrderSubmitted ==
    /\ panel'.placed = panel.placed
    /\ DOMAIN orders' = DOMAIN orders

C18_ExpiryStep == panel.authStatus.needsLogin => NoOrderSubmitted

\* C18: while authStatus.needsLogin is set, no new order is submitted to the
\* gateway.
C18_NoOrderAfterExpiry == [][C18_ExpiryStep]_vars

----------------------------------------------------------------------------
(* Properties of the live engine's signal                                  *)

\* The votes of the recorded call: none when the symbol has no enabled
\* strategy.
VotesOfCall ==
    IF evaluated.symbol \in DOMAIN liveStrategies
       /\ liveStrategies[evaluated.symbol].enabled
    THEN countVotes(liveStrategies[evaluated.symbol], evaluated.currentPrice,
                    evaluated.indicators)
    ELSE <<0, 0>>

\* strength equals min(votes / 5, 1).
StrengthOf(strength, votes) ==
    /\ ~strength.nan
    /\ IF votes >= 5
       THEN strength.num = strength.den
       ELSE 5 * strength.num = votes * strength.den

\* C19: generateSignal emits BUY (SELL) only when at least 3 buy (sell) votes
\* were counted and they strictly outnumber the opposite votes, with strength
\* min(votes / 5, 1); in every other case, a symbol without strategy
\* included, it emits HOLD with strength 0.
C19_ThreeVotesNeeded ==
    evaluated.fn = "generateSignal" =>
        LET buy == VotesOfCall[1]
            sell == VotesOfCall[2]
            signal == evaluated.signal
        IN  /\ signal.action \in {"BUY", "SELL", "HOLD"}
            /\ signal.action = "BUY" =>
                  buy >= 3 /\ buy > sell /\ StrengthOf(signal.strength, buy)
            /\ signal.action = "SELL" =>
                  sell >= 3 /\ sell > buy /\ StrengthOf(signal.strength, sell)
            /\ (~(buy >= 3 /\ buy > sell) /\ ~(sell >= 3 /\ sell > buy)) =>
                  signal.action = "HOLD" /\ signal.strength = Rat(0, 1)
            /\ evaluated.symbol \notin DOMAIN liveStrategies =>
                  signal.action = "HOLD" /\ signal.strength = Rat(0, 1)

\* A SELL of strength 3/5 from three sell votes against one buy vote.
C19_Witness ==
    /\ evaluated.fn = "generateSignal"
    /\ evaluated.signal.action = "SELL"
    /\ VotesOfCall = <<1, 3>>
    /\ evaluated.signal.strength = Rat(3, 5)

----------------------------------------------------------------------------
(* Properties of the derived stop-loss and take-profit orders              *)

ChildrenOf(parentId) ==
    {k \in DOMAIN orders : orders[k].kind \in {"sl", "tp"} /\ orders[k].parent = parentId}

\* Every confirmed parent has its timer pending or its stop loss submitted;
\* once the stop loss has returned, with success or not, the take profit is
\* submitted as well; there is at most one child of each kind.
C20_TwoChildren ==
    \A k \in DOMAIN orders :
        (orders[k].kind = "parent" /\ orders[k].status = "ok") =>
            LET children == ChildrenOf(k)
                stops == {c \in children : orders[c].kind = "sl"}
                targets == {c \in children : orders[c].kind = "tp"}
            IN  /\ Cardinality(stops) <= 1
                /\ Cardinality(targets) <= 1
                /\ (\E t \in timers : t.parentOrderId = k) \/ Cardinality(stops) = 1
                /\ \A c \in stops :
                      orders[c].status # "pending" => Cardinality(targets) = 1

\* Every child belongs to a confirmed parent and has the opposite
\* transaction_type; the stop loss lies on the adverse side of the entry
\* price and the take profit on the favourable side.
C20_ChildShape ==
    \A c \in DOMAIN orders :
        orders[c].kind \in {"sl", "tp"} =>
            LET parent == orders[c].parent
            IN  /\ parent \in DOMAIN orders
                /\ orders[parent].kind = "parent"
                /\ orders[parent].status = "ok"
                /\ orders[c].transaction_type # orders[parent].transaction_type
                /\ orders[c].transaction_type \in {"BUY", "SELL"}
                /\ IF (orders[parent].transaction_type = "BUY") = (orders[c].kind = "sl")
                   THEN RatLT(orders[c].price, orders[parent].price)
                   ELSE RatGT(orders[c].price, orders[parent].price)

\* Every child has the quantity of its parent.
C20_ChildQuantity ==
    \A c \in DOMAIN orders :
        (orders[c].kind \in {"sl", "tp"} /\ orders[c].parent \in DOMAIN orders)
            => orders[c].quantity = orders[orders[c].parent].quantity

\* C20: every confirmed parent order gets exactly two child orders, the take
\* profit submitted whether or not the stop loss succeeded; both have the
\* opposite transaction_type and the parent's quantity, are tagged with the
\* parent's order id, and lie on the right side of the entry price.
C20_ChildrenMirrorParent == C20_TwoChildren /\ C20_ChildShape /\ C20_ChildQuantity

----------------------------------------------------------------------------
(* Properties of the live trading loop                                     *)

\* The history of the symbol has grown by one sample, or was full and has
\* moved on by one.
OneSampleAppended(before, after) ==
    /\ Len(after) = Min(Len(before) + 1, LiveHistoryCap)
    /\ \A i \in 1..(Len(after) - 1) :
          after[i] = before[i + Len(before) + 1 - Len(after)]

C21_TickStep ==
    (engine.isRunning /\ engine.interval.set
        /\ engine'.budget.ticks = engine.budget.ticks - 1)
    => /\ \A symbol \in {"BANKNIFTY", "NIFTY"} :
             liveStrategies[symbol].enabled =>
                /\ OneSampleAppended(engine.priceHistory[symbol],
                                     engine'.priceHistory[symbol])
                /\ OneSampleAppended(engine.volumeHistory[symbol],
                                     engine'.volumeHistory[symbol])
       /\ engine'.generated = engine.generated
              + Cardinality({symbol \in {"BANKNIFTY", "NIFTY"} :
                                 liveStrategies[symbol].enabled})

\* C21: while the engine is running, every interval tick appends one price
\* and one volume to the history of each enabled strategy's symbol and
\* generates a signal for it.
C21_RunningTickProcesses == [][C21_TickStep]_vars

\* The ids of the positions the engine holds.
PositionIds(e) == {e.positions[i].id : i \in 1..Len(e.positions)}

\* The entry data of the positions the engine holds.
EntryData(e) ==
    {[id |-> e.positions[i].id, symbol |-> e.positions[i].symbol,
      side |-> e.positions[i].side, quantity |-> e.positions[i].quantity,
      entryPrice |-> e.positions[i].entryPrice] : i \in 1..Len(e.positions)}

C22_Step ==
    /\ \A id \in PositionIds(engine') \ PositionIds(engine) :
          /\ \E entry \in engine.entries \ engine'.entries : entry.id = id
          /\ engine'.response = [kind |-> "entry", id |-> id, outcome |-> "success"]
    /\ \A id \in PositionIds(engine) \ PositionIds(engine') :
          /\ \E exit \in engine.exits \ engine'.exits : exit.position.id = id
          /\ engine'.response = [kind |-> "exit", id |-> id, outcome |-> "success"]
    /\ \A exit \in engine.exits \ engine'.exits :
          engine'.response.outcome # "success"
              => /\ engine'.positions = engine.positions
                 /\ EntryData(engine') = EntryData(engine)

\* C22: a position is created only by an entry order acknowledged with
\* success, removed only by an exit order acknowledged with success, and an
\* exit order that fails or throws leaves the positions as they are.
C22_PositionsFollowAcknowledgements == [][C22_Step]_vars

\* An exit order has thrown and its position is still open.
C22_Witness ==
    /\ engine.response.kind = "exit"
    /\ engine.response.outcome = "throws"
    /\ engine.response.id \in PositionIds(engine)

\* The parameters of the rsi_oversold strategy as they stand.
RsiParameters == strategies["rsi_oversold_1"].parameters

\* The history of the symbol was extended at its end and nothing was evicted.
Extended(symbol) ==
    /\ symbol \in DOMAIN priceHistory
    /\ symbol \in DOMAIN priceHistory'
    /\ Len(priceHistory'[symbol]) > Len(priceHistory[symbol])
    /\ SubSeq(priceHistory'[symbol], 1, Len(priceHistory[symbol])) = priceHistory[symbol]

C23_Step ==
    \A symbol \in DOMAIN priceHistory :
        (/\ ~IsNull(RsiParameters)
         /\ Extended(symbol)
         /\ Len(priceHistory[symbol]) >= RsiParameters.rsiPeriod + 1)
        => /\ calculateRSI(priceHistory'[symbol], RsiParameters.rsiPeriod)
                = calculateRSI(priceHistory[symbol], RsiParameters.rsiPeriod)
           /\ evaluateRSIOversold(priceHistory'[symbol], RsiParameters)
                = evaluateRSIOversold(priceHistory[symbol], RsiParameters)

\* C23: once a symbol's history holds rsiPeriod + 1 prices, appending prices
\* without eviction changes neither the RSI of the scheduled loop nor the
\* action and confidence rsi_oversold derives from it.
C23_RsiIgnoresNewPrices == [][C23_Step]_vars

\* The loop has appended a quote to a history that decides rsi_oversold.
C23_Witness ==
    /\ HistorySymbol \in DOMAIN priceHistory
    /\ Len(priceHistory[HistorySymbol]) > WarmCycles
    /\ ~IsNull(RsiParameters)
    /\ evaluateRSIOversold(priceHistory[HistorySymbol], RsiParameters).action # "HOLD"

\* Levels a PUT may set as overboughtLevel.
OverboughtLevels == {0, 50, 70, 100}

C27_SellIsSixty(signal) ==
    signal.action = "SELL"
        => /\ RatLE(signal.confidence, Rat(60, 1))
           /\ RatGE(signal.confidence, Rat(60, 1))
           /\ ~PassesGate(signal)

PositionsOf(e, symbol) == {i \in 1..Len(e.positions) : e.positions[i].symbol = symbol}

EntriesPlaced(symbol) ==
    {i \in 1..Len(engine.placed) :
        engine.placed[i].kind = "entry" /\ engine.placed[i].symbol = symbol}

ExitsPlaced(id) ==
    {i \in 1..Len(engine.placed) :
        engine.placed[i].kind = "exit" /\ engine.placed[i].position = id}

\* The exit orders of a position that failed or threw.
ExitsRefused(id) == {i \in 1..Len(engine.refused) : engine.refused[i] = id}

C29_NoMacdVote ==
    evaluated.fn = "calculateIndicators" =>
        /\ evaluated.indicators.macdSignal = evaluated.indicators.macd
        /\ VotesOfCall[1] <= 4
        /\ VotesOfCall[2] <= 4
        /\ \E votes \in {0, 3, 4} :
              /\ StrengthOf(evaluated.signal.strength, votes)
              /\ votes = 0 <=> evaluated.signal.action = "HOLD"

\* Four sell votes on a snapshot whose EMA of 12 lies above its EMA of 26.
C29_Witness ==
    /\ evaluated.fn = "calculateIndicators"
    /\ evaluated.indicators.macd > 0
    /\ VotesOfCall = <<0, 4>>
    /\ evaluated.signal.strength = Rat(4, 5)

C30_Step ==
    \A order \in chart.pending \ chart'.pending :
        (order.exit /\ chart'.settled.outcome = "returns")
            => chart'.positions[order.symbol] = NoPosition

\* C30: when an exit order (take profit, stop loss or trailing stop) placed
\* for a symbol with an open position has gone through, the symbol's current
\* position is null, so that the next tick treats the symbol as flat.
C30_ExitClearsPosition == [][C30_Step]_vars

====
